---- MODULE Spec2Model ----
(***************************************************************************)
(* folioli: the projection engine of src/src/app/page.js (Home) and the   *)
(* node components that feed it.                                           *)
(*                                                                         *)
(* Numbers.  Amounts and money are counted in quanta of 1.25e-7, so that   *)
(* the epsilon of the code, 0.000001, is EPS = 8 quanta; prices are plain  *)
(* USD-per-unit numbers (1, 2, 4).  Every division the explored inputs     *)
(* cause is exact at this resolution; Div is the quotient.                 *)
(* A nullable number (price, value, toPrice) is <<>> for null/undefined    *)
(* and <<n>> for the number n.                                             *)
(* Node ids.  The id string `rotate-3` is the record [kind |-> "rotate",   *)
(* n |-> 3]; id.startsWith('rotate-') is id.kind = "rotate".               *)
(***************************************************************************)
EXTENDS Integers, Sequences, FiniteSets, TLC

VARIABLES
    nodes,                \* useNodesState: the set of node ids on the canvas
    edges,                \* useEdgesState: sequence of [source, target]
    portfolioHoldings,    \* portfolio id -> sequence of positions
    rotations, sells, buys, priceTargets,     \* node id -> recorded action
    rotationInputs, sellInputs, buyInputs, priceTargetInputs,
    rotationCount, sellCount, buyCount, priceTargetCount,
    projectedForPortfolio, projectedCount, portfolioCount,
    allInRequest,         \* the last '+ All-In' request, <<>> when none
    lookups,              \* price lookups of the rotate nodes: timers set, requests sent
    refresh               \* the background refresh of a page load, <<>> when none runs

vars == <<nodes, edges, portfolioHoldings, rotations, sells, buys, priceTargets,
          rotationInputs, sellInputs, buyInputs, priceTargetInputs,
          rotationCount, sellCount, buyCount, priceTargetCount,
          projectedForPortfolio, projectedCount, portfolioCount, allInRequest,
          lookups, refresh>>

----------------------------------------------------------------------------
(* Bounds of the exploration *)

MaxNodes == 2        \* action nodes ever created
MaxHoldings == 2     \* positions typed into the portfolio
MaxTargets == 3      \* action nodes ever created in SpecTargets, SpecDownstream
MaxLedger == 3       \* positions typed into the portfolio in SpecAllInNode
MantissaBits == 3    \* significand width of the modelled binary floating point

EPS == 8             \* 0.000001, in quanta

Null == <<>>
Some(n) == <<n>>
Num(x) == IF x = Null THEN 0 ELSE x[1]              \* JS ToNumber(null) = 0
Truthy(x) == x # Null /\ x[1] # 0                   \* JS truthiness
Abs(n) == IF n < 0 THEN 0 - n ELSE n
Div(a, b) == IF a >= 0 THEN a \div b ELSE 0 - ((0 - a) \div b)

INITIAL_PORTFOLIO_ID == [kind |-> "portfolio", n |-> 1]

Min(S) == CHOOSE i \in S : \A j \in S : i <= j
Max(S) == CHOOSE i \in S : \A j \in S : i >= j

\* Array.prototype.findIndex / find: the first index whose element passes, 0 if none
FirstIndex(seq, Test(_)) ==
    LET S == {i \in 1..Len(seq) : Test(seq[i])}
    IN IF S = {} THEN 0 ELSE Min(S)

RemoveAt(seq, i) == SubSeq(seq, 1, i - 1) \o SubSeq(seq, i + 1, Len(seq))

RECURSIVE Flat(_)
Flat(ss) == IF ss = <<>> THEN <<>> ELSE Head(ss) \o Flat(Tail(ss))

IndexOf(seq, x) == FirstIndex(seq, LAMBDA y : y = x)

----------------------------------------------------------------------------
(* The price lookup collaborator: fetchPrice(symbol) *)

Market(t) ==
    CASE t = "A" -> [price |-> Some(2), type |-> "crypto"]
      [] t = "B" -> [price |-> Some(1), type |-> "stock"]
      [] OTHER   -> [price |-> Null, type |-> "unknown"]

fetchPrice(symbol) == Market(symbol)

----------------------------------------------------------------------------
(* Ledgers.  A fold works on a run: the positions are objects of a heap,   *)
(* the array `arr` holds references to them.  Objects 1..n are the         *)
(* position objects of the base holdings the fold was called with.         *)

Position(t, a, p, ty, v) ==
    [ticker |-> t, amount |-> a, price |-> p, type |-> ty, value |-> v]

Ledger(run) == [i \in 1..Len(run.arr) |-> run.heap[run.arr[i]]]

findIndex(run, t) == FirstIndex(run.arr, LAMBDA o : run.heap[o].ticker = t)

Push(run, pos) ==
    [run EXCEPT !.heap = Append(@, pos), !.arr = Append(@, Len(run.heap) + 1)]

\* holdings.map(h => ({ ...h })): every position is copied into a new object
CloneHoldings(holdings) ==
    [heap |-> holdings \o holdings,
     arr  |-> [i \in 1..Len(holdings) |-> Len(holdings) + i],
     cash |-> 0]

\* the debit of a rotate or a sell
DebitKeepNegative(run, t, a) ==
    LET i == findIndex(run, t) IN
    IF i = 0 THEN run
    ELSE LET o == run.arr[i]
             amt == run.heap[o].amount - a
             h == [run.heap EXCEPT ![o].amount = amt,
                                   ![o].value = Some(amt * Num(run.heap[o].price))]
         IN IF Abs(amt) <= EPS
            THEN [run EXCEPT !.heap = h, !.arr = RemoveAt(@, i)]
            ELSE [run EXCEPT !.heap = h]

Debit(run, t, a) ==
    LET i == findIndex(run, t) IN
    IF i = 0 THEN run
    ELSE LET o == run.arr[i]
             amt == run.heap[o].amount - a
             h == [run.heap EXCEPT ![o].amount = amt,
                                   ![o].value = Some(amt * Num(run.heap[o].price))]
         IN IF amt <= EPS
            THEN [run EXCEPT !.heap = h, !.arr = RemoveAt(@, i)]
            ELSE [run EXCEPT !.heap = h]

\* a credit that takes over the incoming price
CreditAtIncomingPrice(run, t, b, toPrice, toType) ==
    LET i == findIndex(run, t) IN
    IF i # 0
    THEN LET o == run.arr[i]
             amt == run.heap[o].amount + b
         IN [run EXCEPT !.heap[o].amount = amt,
                        !.heap[o].price = toPrice,
                        !.heap[o].value = Some(amt * Num(toPrice))]
    ELSE Push(run, Position(t, b, toPrice, toType, Some(b * Num(toPrice))))

\* the credit of a rotate or a buy
Credit(run, t, b, toPrice, toType) ==
    LET i == findIndex(run, t) IN
    IF i # 0
    THEN LET o == run.arr[i]
             amt == run.heap[o].amount + b
         IN [run EXCEPT !.heap[o].amount = amt,
                        !.heap[o].value = Some(amt * Num(run.heap[o].price))]
    ELSE Push(run, Position(t, b, toPrice, toType, Some(b * Num(toPrice))))

\* "Add/update cash position if any"
ReconcileCash(run) ==
    IF run.cash = 0 THEN run
    ELSE LET i == findIndex(run, "USD") IN
         IF i # 0
         THEN LET o == run.arr[i]
                  amt == run.heap[o].amount + run.cash
                  h == [run.heap EXCEPT ![o].amount = amt, ![o].value = Some(amt)]
              IN IF Abs(amt) <= EPS
                 THEN [run EXCEPT !.heap = h, !.arr = RemoveAt(@, i)]
                 ELSE [run EXCEPT !.heap = h]
         ELSE Push(run, Position("USD", run.cash, Some(1), "cash", Some(run.cash)))

\* a sort that places an element before the elements of equal value
RECURSIVE InsertSortedBeforeTies(_, _, _)
InsertSortedBeforeTies(heap, sorted, o) ==
    IF sorted = <<>> THEN <<o>>
    ELSE IF Num(heap[Head(sorted)].value) > Num(heap[o].value)
         THEN <<Head(sorted)>> \o InsertSortedBeforeTies(heap, Tail(sorted), o)
         ELSE <<o>> \o sorted

\* projected.sort((a, b) => (b.value || 0) - (a.value || 0)): stable, in place
RECURSIVE InsertSorted(_, _, _)
InsertSorted(heap, sorted, o) ==
    IF sorted = <<>> THEN <<o>>
    ELSE IF Num(heap[Head(sorted)].value) >= Num(heap[o].value)
         THEN <<Head(sorted)>> \o InsertSorted(heap, Tail(sorted), o)
         ELSE <<o>> \o sorted

RECURSIVE SortRefs(_, _, _)
SortRefs(heap, sorted, rest) ==
    IF rest = <<>> THEN sorted
    ELSE SortRefs(heap, InsertSorted(heap, sorted, Head(rest)), Tail(rest))

sortByValueDesc(run) == [run EXCEPT !.arr = SortRefs(run.heap, <<>>, run.arr)]

----------------------------------------------------------------------------
(* Maps keyed by node id or ticker (JS objects used as dictionaries) *)

Put(f, k, v) == [x \in (DOMAIN f) \cup {k} |-> IF x = k THEN v ELSE f[x]]
Del(f, K) == [x \in (DOMAIN f) \ K |-> f[x]]
Has(f, k) == k \in DOMAIN f

----------------------------------------------------------------------------
(* Action Graph Resolver *)

ActionKinds == {"rotate", "sell", "buy", "priceTarget"}

isActionNode(nodeId) == nodeId.kind \in ActionKinds

getActionNodesForPortfolio(portfolioId, edgesList) ==
    LET fromP == SelectSeq(edgesList, LAMBDA e : e.source = portfolioId)
        targets == [i \in 1..Len(fromP) |-> fromP[i].target]
    IN SelectSeq(targets, isActionNode)

\* walks back through the chain; <<>> is null, <<p>> the portfolio id p
RECURSIVE WalkBack(_, _, _)
WalkBack(E, currentId, visited) ==
    IF currentId \in visited THEN Null
    ELSE LET i == FirstIndex(E, LAMBDA e : e.target = currentId) IN
         IF i = 0 THEN Null
         ELSE IF E[i].source.kind = "portfolio" THEN Some(E[i].source)
         ELSE WalkBack(E, E[i].source, visited \cup {currentId})

getSourcePortfolioForAction(E, actionNodeId) == WalkBack(E, actionNodeId, {})

\* the walk that takes the first outgoing edge whatever its target is
RECURSIVE FollowChainAnyTarget(_, _, _)
FollowChainAnyTarget(E, chain, currentId) ==
    LET i == FirstIndex(E, LAMBDA e : e.source = currentId) IN
    IF i = 0 THEN chain
    ELSE IF \E k \in 1..Len(chain) : chain[k] = E[i].target THEN chain
    ELSE FollowChainAnyTarget(E, Append(chain, E[i].target), E[i].target)

RECURSIVE FollowChain(_, _, _)
FollowChain(E, chain, currentId) ==
    LET i == FirstIndex(E, LAMBDA e : e.source = currentId /\ isActionNode(e.target)) IN
    IF i = 0 THEN chain
    ELSE IF \E k \in 1..Len(chain) : chain[k] = E[i].target THEN chain
    ELSE FollowChain(E, Append(chain, E[i].target), E[i].target)

getOrderedChainNodes(E, portfolioId) ==
    LET firstLevelEdges ==
            SelectSeq(E, LAMBDA e : e.source = portfolioId /\ isActionNode(e.target))
    IN [c \in 1..Len(firstLevelEdges) |->
            FollowChain(E, <<firstLevelEdges[c].target>>, firstLevelEdges[c].target)]

\* the chain that contains stopBeforeNodeId, and its prefix before that node
ChainWith(chains, stopBeforeNodeId) ==
    LET c == FirstIndex(chains, LAMBDA ch : IndexOf(ch, stopBeforeNodeId) # 0)
    IN IF c = 0 THEN <<>> ELSE chains[c]

TargetChain(E, portfolioId, stopBeforeNodeId) ==
    ChainWith(getOrderedChainNodes(E, portfolioId), stopBeforeNodeId)

Upto(chain, stopBeforeNodeId, last) ==
    SubSeq(chain, 1, IndexOf(chain, stopBeforeNodeId) - 1 + last)

PrefixBeforeInclusive(E, portfolioId, stopBeforeNodeId) ==
    Upto(TargetChain(E, portfolioId, stopBeforeNodeId), stopBeforeNodeId, 1)

PrefixBefore(E, portfolioId, stopBeforeNodeId) ==
    Upto(TargetChain(E, portfolioId, stopBeforeNodeId), stopBeforeNodeId, 0)

----------------------------------------------------------------------------
(* Price Override Resolver *)

ValidTarget(PT, nodeId) ==
    /\ nodeId.kind = "priceTarget"
    /\ Has(PT, nodeId)
    /\ PT[nodeId].asset # ""
    /\ Truthy(PT[nodeId].targetPrice)

\* priceOverrides[pt.asset] = pt.targetPrice, in the order of ids
RECURSIVE CollectOverridesFirstWins(_, _, _)
CollectOverridesFirstWins(PT, ids, acc) ==
    IF ids = <<>> THEN acc
    ELSE CollectOverridesFirstWins(PT, Tail(ids),
            IF ValidTarget(PT, Head(ids)) /\ ~Has(acc, PT[Head(ids)].asset)
            THEN Put(acc, PT[Head(ids)].asset, Num(PT[Head(ids)].targetPrice))
            ELSE acc)

RECURSIVE CollectOverrides(_, _, _)
CollectOverrides(PT, ids, acc) ==
    IF ids = <<>> THEN acc
    ELSE CollectOverrides(PT, Tail(ids),
            IF ValidTarget(PT, Head(ids))
            THEN Put(acc, PT[Head(ids)].asset, Num(PT[Head(ids)].targetPrice))
            ELSE acc)

getPriceOverridesUpTo(E, PT, portfolioId, stopBeforeNodeId) ==
    CollectOverrides(PT, PrefixBefore(E, portfolioId, stopBeforeNodeId), <<>>)

----------------------------------------------------------------------------
(* Transformation Engine: the primitive operations a chain of action nodes *)
(* performs on a run, in the order the loops of the folds perform them.    *)
(* R is the record of the four maps rotations, sells, buys, priceTargets.  *)

OpsOfNode(R, id) ==
    CASE id.kind = "rotate" /\ Has(R.rotations, id) ->
            LET r == R.rotations[id] IN
            << [op |-> "debit", node |-> id, ticker |-> r.fromAsset, amount |-> r.sellAmount],
               [op |-> "credit", node |-> id, ticker |-> r.toAsset, amount |-> r.buyAmount,
                price |-> r.toPrice, type |-> r.toType] >>
      [] id.kind = "sell" /\ Has(R.sells, id) ->
            LET r == R.sells[id] IN
            << [op |-> "debit", node |-> id, ticker |-> r.fromAsset, amount |-> r.sellAmount],
               [op |-> "cash", node |-> id, delta |-> r.sellValue] >>
      [] id.kind = "buy" /\ Has(R.buys, id) ->
            LET r == R.buys[id] IN
            << [op |-> "cash", node |-> id, delta |-> 0 - r.cashAmount],
               [op |-> "credit", node |-> id, ticker |-> r.toAsset, amount |-> r.buyAmount,
                price |-> r.toPrice, type |-> r.toType] >>
      [] OTHER -> <<>>

RECURSIVE OpsOfChain(_, _)
OpsOfChain(R, ids) ==
    IF ids = <<>> THEN <<>> ELSE OpsOfNode(R, Head(ids)) \o OpsOfChain(R, Tail(ids))

\* computeHoldingsUpTo, "First pass: apply price targets"
OverrideOpsOfChain(R, ids) ==
    LET pts == SelectSeq(ids, LAMBDA id : ValidTarget(R.priceTargets, id))
    IN [i \in 1..Len(pts) |->
          [op |-> "override", node |-> pts[i],
           ticker |-> R.priceTargets[pts[i]].asset,
           price |-> R.priceTargets[pts[i]].targetPrice]]

OverridePrice(run, t, p) ==
    LET i == findIndex(run, t) IN
    IF i = 0 THEN run
    ELSE LET o == run.arr[i] IN
         [run EXCEPT !.heap[o].price = p,
                     !.heap[o].value = Some(Num(p) * run.heap[o].amount)]

ApplyOp(run, op) ==
    CASE op.op = "debit"     -> Debit(run, op.ticker, op.amount)
      [] op.op = "credit"    -> Credit(run, op.ticker, op.amount, op.price, op.type)
      [] op.op = "cash"      -> [run EXCEPT !.cash = @ + op.delta]
      [] op.op = "override"  -> OverridePrice(run, op.ticker, op.price)
      [] op.op = "reconcile" -> ReconcileCash(run)
      [] op.op = "sort"      -> sortByValueDesc(run)

\* the runs after each operation: Trace(run, ops)[k] is the run after ops[k]
RECURSIVE Trace(_, _)
Trace(run, ops) ==
    IF ops = <<>> THEN <<>>
    ELSE LET next == ApplyOp(run, Head(ops)) IN <<next>> \o Trace(next, Tail(ops))

Last(seq) == seq[Len(seq)]

HoldingsOf(H, portfolioId) == IF Has(H, portfolioId) THEN H[portfolioId] ELSE <<>>

----------------------------------------------------------------------------
(* computeHoldingsUpTo *)

FoldOps(R, prefix) ==
    IF prefix = <<>> THEN <<>>
    ELSE OverrideOpsOfChain(R, prefix) \o OpsOfChain(R, prefix) \o <<[op |-> "reconcile"]>>

UpToOps(E, R, portfolioId, stopBeforeNodeId) ==
    FoldOps(R, PrefixBefore(E, portfolioId, stopBeforeNodeId))

\* the run before the first operation followed by the run after each operation
UpToRuns(E, H, R, portfolioId, stopBeforeNodeId) ==
    LET start == CloneHoldings(HoldingsOf(H, portfolioId))
    IN <<start>> \o Trace(start, UpToOps(E, R, portfolioId, stopBeforeNodeId))

computeHoldingsUpTo(E, H, R, portfolioId, stopBeforeNodeId) ==
    Ledger(Last(UpToRuns(E, H, R, portfolioId, stopBeforeNodeId)))

----------------------------------------------------------------------------
(* calculateProjectedHoldings *)

\* "Clone holdings and apply price overrides"
CloneWithOverridesAliased(holdings, priceOverrides) ==
    [heap |-> holdings, arr |-> [i \in 1..Len(holdings) |-> i], cash |-> 0]

CloneWithOverrides(holdings, priceOverrides) ==
    [heap |-> holdings \o
              [i \in 1..Len(holdings) |->
                  IF Has(priceOverrides, holdings[i].ticker)
                  THEN [holdings[i] EXCEPT
                           !.price = Some(priceOverrides[holdings[i].ticker]),
                           !.value = Some(priceOverrides[holdings[i].ticker]
                                            * holdings[i].amount)]
                  ELSE holdings[i]],
     arr  |-> [i \in 1..Len(holdings) |-> Len(holdings) + i],
     cash |-> 0]

ProjectedOps(E, R, portfolioId) ==
    OpsOfChain(R, Flat(getOrderedChainNodes(E, portfolioId)))
        \o <<[op |-> "reconcile"], [op |-> "sort"]>>

\* the fold with the price targets of the first chain only
ProjectedRunsFirstChain(E, H, R, portfolioId) ==
    LET chains == getOrderedChainNodes(E, portfolioId)
        priceOverrides == CollectOverrides(R.priceTargets,
                              IF chains = <<>> THEN <<>> ELSE chains[1], <<>>)
        start == CloneWithOverrides(HoldingsOf(H, portfolioId), priceOverrides)
    IN <<start>> \o Trace(start, ProjectedOps(E, R, portfolioId))

ProjectedRuns(E, H, R, portfolioId) ==
    LET allActionNodes == Flat(getOrderedChainNodes(E, portfolioId))
        priceOverrides == CollectOverrides(R.priceTargets, allActionNodes, <<>>)
        start == CloneWithOverrides(HoldingsOf(H, portfolioId), priceOverrides)
    IN <<start>> \o Trace(start, ProjectedOps(E, R, portfolioId))

calculateProjectedHoldings(E, H, R, portfolioId) ==
    Ledger(Last(ProjectedRuns(E, H, R, portfolioId)))

----------------------------------------------------------------------------
(* Node components: what each records from its inputs and from the         *)
(* holdings and priceOverrides nodesWithData hands it.  A result of <<>>   *)
(* is the callback(id, null) of the component, <<r>> the record r.         *)

find(holdings, t) == FirstIndex(holdings, LAMBDA h : h.ticker = t)

EmptyRotationInputs ==
    [fromAsset |-> "", sellAmount |-> 0, toAsset |-> "", toPrice |-> Null, toType |-> "null"]
EmptySellInputs == [fromAsset |-> "", inputMode |-> "units", inputValue |-> 0]
EmptyBuyInputs ==
    [inputMode |-> "usd", inputValue |-> 0, toAsset |-> "", toPrice |-> Null, toType |-> "null"]
EmptyPriceTargetInputs == [asset |-> "", targetValue |-> 0]

\* RotateAssetNode
RotateRecord(inp, holdings) ==
    LET sel == find(holdings, inp.fromAsset)
        sellValue == IF sel # 0 /\ inp.sellAmount # 0
                     THEN inp.sellAmount * Num(holdings[sel].price) ELSE 0
        buyAmount == IF Truthy(inp.toPrice) /\ sellValue # 0
                     THEN Div(sellValue, Num(inp.toPrice)) ELSE 0
    IN IF inp.fromAsset # "" /\ inp.sellAmount > 0 /\ inp.toAsset # "" /\ Truthy(inp.toPrice)
       THEN Some([fromAsset |-> inp.fromAsset, sellAmount |-> inp.sellAmount,
                  sellValue |-> sellValue, toAsset |-> inp.toAsset,
                  toPrice |-> inp.toPrice, toType |-> inp.toType,
                  buyAmount |-> buyAmount])
       ELSE Null

\* SellAssetNode
SellRecord(inp, holdings) ==
    LET sel == find(holdings, inp.fromAsset)
        assetPrice == IF sel # 0 THEN Num(holdings[sel].price) ELSE 0
        sellAmount == IF inp.inputMode = "units" THEN inp.inputValue
                      ELSE IF inp.inputValue # 0 /\ assetPrice # 0
                           THEN Div(inp.inputValue, assetPrice) ELSE 0
        sellValue == IF inp.inputMode = "usd" THEN inp.inputValue
                     ELSE IF inp.inputValue # 0 /\ assetPrice # 0
                          THEN inp.inputValue * assetPrice ELSE 0
    IN IF /\ inp.fromAsset # "" /\ inp.inputValue > 0
          /\ sel # 0 /\ Truthy(holdings[sel].price)
          /\ sellAmount > 0 /\ sellValue > 0
       THEN Some([fromAsset |-> inp.fromAsset, sellAmount |-> sellAmount,
                  sellValue |-> sellValue])
       ELSE Null

\* BuyAssetNode
BuyRecord(inp) ==
    LET p == Num(inp.toPrice)
        cashAmount == IF inp.inputMode = "usd" THEN inp.inputValue
                      ELSE IF inp.inputValue # 0 /\ p # 0 THEN inp.inputValue * p ELSE 0
        buyAmount == IF inp.inputMode = "units" THEN inp.inputValue
                     ELSE IF inp.inputValue # 0 /\ p # 0 THEN Div(inp.inputValue, p) ELSE 0
    IN IF /\ inp.inputValue > 0 /\ inp.toAsset # "" /\ Truthy(inp.toPrice)
          /\ cashAmount > 0 /\ buyAmount > 0
       THEN Some([cashAmount |-> cashAmount, toAsset |-> inp.toAsset,
                  toPrice |-> inp.toPrice, toType |-> inp.toType,
                  buyAmount |-> buyAmount])
       ELSE Null

\* BuyAssetNode, "Fetch price when toAsset changes (skip if there's a price override)".
\* The lookup timer a changed toAsset starts is cleared by the re-render that the
\* onInputChange of the same commit causes: savedInputs.toAsset then equals the key
\* and savedInputs.toPrice (null or a number) !== undefined, so the effect returns
\* and toPrice keeps its value until loadAndRefresh writes a fetched one.
BuyPriceEffect(inp, priceOverrides) ==
    IF inp.toAsset = "" THEN [inp EXCEPT !.toPrice = Null, !.toType = "null"]
    ELSE IF Has(priceOverrides, inp.toAsset)
         THEN [inp EXCEPT !.toPrice = Some(priceOverrides[inp.toAsset]), !.toType = "target"]
    ELSE inp

\* RotateAssetNode, "Fetch price when toAsset changes"
RotatePriceEffect(inp, priceOverrides) ==
    IF inp.toAsset = "" THEN [inp EXCEPT !.toPrice = Null, !.toType = "null"]
    ELSE [inp EXCEPT !.toPrice = fetchPrice(inp.toAsset).price,
                     !.toType = fetchPrice(inp.toAsset).type]

\* PriceTargetNode, targetMode 'price'
PriceTargetRecord(inp, holdings) ==
    LET sel == find(holdings, inp.asset)
        currentPrice == IF sel # 0 THEN holdings[sel].price ELSE Null
    IN IF inp.asset # "" /\ inp.targetValue > 0
       THEN Some([asset |-> inp.asset, targetPrice |-> Some(inp.targetValue),
                  currentPrice |-> currentPrice])
       ELSE Null

----------------------------------------------------------------------------
(* nodesWithData and the effects of the node components: one render pass   *)
(* recomputes every node's record from the holdings computed with the      *)
(* records of the pass before; React repeats it until nothing changes.     *)
(* X is [rotations, sells, buys, priceTargets, buyInputs].                 *)

SnapshotFor(E, H, X, nodeId) ==
    LET src == getSourcePortfolioForAction(E, nodeId)
    IN IF src = Null THEN <<>> ELSE computeHoldingsUpTo(E, H, X, src[1], nodeId)

OverridesFor(E, X, nodeId) ==
    LET src == getSourcePortfolioForAction(E, nodeId)
    IN IF src = Null THEN <<>>
       ELSE getPriceOverridesUpTo(E, X.priceTargets, src[1], nodeId)

Rendered(N, kind, inputs) == {n \in N : n.kind = kind /\ Has(inputs, n)}

\* a rendered node sets its record or deletes it; other entries stay
Records(old, N, kind, inputs, Rec(_)) ==
    LET rec == [n \in Rendered(N, kind, inputs) |-> Rec(n)]
        live == {n \in DOMAIN rec : rec[n] # Null}
        stale == {n \in DOMAIN old : ~(n \in DOMAIN rec)}
    IN [n \in live \cup stale |-> IF n \in live THEN rec[n][1] ELSE old[n]]

\* the buy inputs after the price effect of every rendered buy node
BuyInputsPass(E, N, X) ==
    [n \in DOMAIN X.buyInputs |->
        IF n \in N THEN BuyPriceEffect(X.buyInputs[n], OverridesFor(E, X, n))
        ELSE X.buyInputs[n]]

RenderWith(N, RI, SI, PI, X, bi, snap) ==
    [rotations |-> Records(X.rotations, N, "rotate", RI,
                           LAMBDA n : RotateRecord(RI[n], snap[n])),
     sells |-> Records(X.sells, N, "sell", SI, LAMBDA n : SellRecord(SI[n], snap[n])),
     buys |-> Records(X.buys, N, "buy", bi, LAMBDA n : BuyRecord(bi[n])),
     priceTargets |-> Records(X.priceTargets, N, "priceTarget", PI,
                           LAMBDA n : PriceTargetRecord(PI[n], snap[n])),
     buyInputs |-> bi]

RenderPass(E, H, N, RI, SI, PI, X) ==
    RenderWith(N, RI, SI, PI, X, BuyInputsPass(E, N, X),
               [n \in N |-> SnapshotFor(E, H, X, n)])

RECURSIVE Settle(_, _, _, _, _, _, _, _)
RECURSIVE SettleFrom(_, _, _, _, _, _, _, _, _)
SettleFrom(E, H, N, RI, SI, PI, X, next, k) ==
    IF next = X \/ k = 0 THEN next ELSE Settle(E, H, N, RI, SI, PI, next, k - 1)

Settle(E, H, N, RI, SI, PI, X, k) ==
    SettleFrom(E, H, N, RI, SI, PI, X, RenderPass(E, H, N, RI, SI, PI, X), k)

Commit(X, RI, SI, PI) ==
    /\ rotations' = X.rotations
    /\ sells' = X.sells
    /\ buys' = X.buys
    /\ priceTargets' = X.priceTargets
    /\ buyInputs' = X.buyInputs
    /\ rotationInputs' = RI
    /\ sellInputs' = SI
    /\ priceTargetInputs' = PI

\* the state of the page once the renders a change sets off have settled
Render(E, H, N, RI, SI, BI, PI) ==
    Commit(Settle(E, H, N, RI, SI, PI,
                  [rotations |-> rotations, sells |-> sells, buys |-> buys,
                   priceTargets |-> priceTargets, buyInputs |-> BI],
                  Cardinality(N)),
           RI, SI, PI)

Recs == [rotations |-> rotations, sells |-> sells, buys |-> buys,
         priceTargets |-> priceTargets]

----------------------------------------------------------------------------
(* The editor: state after construction and one action per handler *)

P1 == INITIAL_PORTFOLIO_ID

\* what the user types: <<ticker, amount>> of a holding, the amount of a rotate,
\* <<inputMode, inputValue>> of a sell and of a buy, the price of a target
HoldChoices == {<<"A", 32>>, <<"A", 0>>, <<"USD", 32>>}
AllTickers == {"A", "B", "USD"}
BuyTickers == {"A", "B"}
RotateAmounts == {32, 48}
SellChoices == {<<"usd", 8>>, <<"units", 48>>}
BuyChoices == {<<"usd", 32>>, <<"units", 8>>}
TargetValues == {4}
WideTargetValues == {1, 4}
ChainTypes == {"rotate", "sell", "buy", "priceTarget"}

ActionNodes == {n \in nodes : isActionNode(n)}

Tickers(holdings) == {holdings[i].ticker : i \in 1..Len(holdings)}

\* the holdings nodesWithData hands node n in the current state
HoldingsAt(n) == SnapshotFor(edges, portfolioHoldings, Recs, n)

Init ==
    /\ nodes = {P1}
    /\ edges = <<>>
    /\ portfolioHoldings = [p \in {P1} |-> <<>>]
    /\ rotations = <<>> /\ sells = <<>> /\ buys = <<>> /\ priceTargets = <<>>
    /\ rotationInputs = <<>> /\ sellInputs = <<>>
    /\ buyInputs = <<>> /\ priceTargetInputs = <<>>
    /\ rotationCount = 0 /\ sellCount = 0 /\ buyCount = 0 /\ priceTargetCount = 0
    /\ projectedForPortfolio = <<>>
    /\ projectedCount = 0
    /\ portfolioCount = 1
    /\ allInRequest = Null
    /\ lookups = [timer |-> <<>>, inflight |-> {}]
    /\ refresh = Null

GraphUnchanged ==
    UNCHANGED <<nodes, edges, rotationCount, sellCount, buyCount, priceTargetCount,
                projectedForPortfolio, projectedCount, portfolioCount>>

\* PortfolioNode.addHolding, then handleHoldingsChange
AddHolding(t, a, max) ==
    /\ Len(portfolioHoldings[P1]) < max
    /\ LET got == fetchPrice(t)
           newHolding == Position(t, a, got.price, got.type,
                                  IF Truthy(got.price) THEN Some(Num(got.price) * a)
                                  ELSE Null)
           H == Put(portfolioHoldings, P1, Append(portfolioHoldings[P1], newHolding))
       IN /\ portfolioHoldings' = H
          /\ Render(edges, H, nodes, rotationInputs, sellInputs, buyInputs,
                    priceTargetInputs)
    /\ allInRequest' = Null
    /\ UNCHANGED <<lookups, refresh>>
    /\ GraphUnchanged

addHolding(t, a) == AddHolding(t, a, MaxHoldings)

\* PortfolioNode.removeHolding, then handleHoldingsChange
removeHolding(index) ==
    /\ index \in 1..Len(portfolioHoldings[P1])
    /\ LET H == Put(portfolioHoldings, P1, RemoveAt(portfolioHoldings[P1], index))
       IN /\ portfolioHoldings' = H
          /\ Render(edges, H, nodes, rotationInputs, sellInputs, buyInputs,
                    priceTargetInputs)
    /\ allInRequest' = Null
    /\ UNCHANGED <<lookups, refresh>>
    /\ GraphUnchanged

\* a numbering by the nodes of the kind that are in the graph
CountLive(kind) == Cardinality({n \in nodes : n.kind = kind})

Count(kind) ==
    CASE kind = "rotate" -> rotationCount
      [] kind = "sell" -> sellCount
      [] kind = "buy" -> buyCount
      [] kind = "priceTarget" -> priceTargetCount

NodeBudget(max) == rotationCount + sellCount + buyCount + priceTargetCount < max

\* the new node, its counter, and the inputs its component saves on mount
Mount(kind, id, N, E) ==
    /\ rotationCount' = rotationCount + (IF kind = "rotate" THEN 1 ELSE 0)
    /\ sellCount' = sellCount + (IF kind = "sell" THEN 1 ELSE 0)
    /\ buyCount' = buyCount + (IF kind = "buy" THEN 1 ELSE 0)
    /\ priceTargetCount' = priceTargetCount + (IF kind = "priceTarget" THEN 1 ELSE 0)
    /\ nodes' = N
    /\ edges' = E
    /\ Render(E, portfolioHoldings, N,
              IF kind = "rotate" THEN Put(rotationInputs, id, EmptyRotationInputs)
              ELSE rotationInputs,
              IF kind = "sell" THEN Put(sellInputs, id, EmptySellInputs) ELSE sellInputs,
              IF kind = "buy" THEN Put(buyInputs, id, EmptyBuyInputs) ELSE buyInputs,
              IF kind = "priceTarget" THEN Put(priceTargetInputs, id, EmptyPriceTargetInputs)
              ELSE priceTargetInputs)
    /\ UNCHANGED <<portfolioHoldings, portfolioCount>>
    /\ allInRequest' = Null
    /\ UNCHANGED <<lookups, refresh>>

\* handleAddRotation / handleAddSell / handleAddBuy / handleAddPriceTarget,
\* with ensureProjectedNodeForPortfolio
AddFirstLevel(kind, sourcePortfolioId, max) ==
    LET newId == [kind |-> kind, n |-> Count(kind) + 1]
        fresh == ~Has(projectedForPortfolio, sourcePortfolioId)
        projectedId == IF fresh THEN [kind |-> "projected", n |-> projectedCount + 1]
                       ELSE projectedForPortfolio[sourcePortfolioId]
    IN /\ NodeBudget(max)
       /\ projectedForPortfolio' =
             IF fresh THEN Put(projectedForPortfolio, sourcePortfolioId, projectedId)
             ELSE projectedForPortfolio
       /\ projectedCount' = IF fresh THEN projectedCount + 1 ELSE projectedCount
       /\ Mount(kind, newId,
                nodes \cup {newId} \cup (IF fresh THEN {projectedId} ELSE {}),
                edges \o << [source |-> sourcePortfolioId, target |-> newId],
                            [source |-> newId, target |-> projectedId] >>)

handleAddRotation(sourcePortfolioId) == AddFirstLevel("rotate", sourcePortfolioId, MaxNodes)
handleAddSell(sourcePortfolioId) == AddFirstLevel("sell", sourcePortfolioId, MaxNodes)
handleAddBuy(sourcePortfolioId) == AddFirstLevel("buy", sourcePortfolioId, MaxNodes)
handleAddPriceTarget(sourcePortfolioId) ==
    AddFirstLevel("priceTarget", sourcePortfolioId, MaxNodes)

\* handleAddChainedNode: any nodeType other than the four it names returns
\* without a change; allInRequest remembers such a press of "+ All-In"
AddChainedNode(sourceNodeId, nodeType, max) ==
    LET portfolioId == getSourcePortfolioForAction(edges, sourceNodeId) IN
    /\ portfolioId # Null
    /\ Has(projectedForPortfolio, portfolioId[1])
    /\ LET projectedId == projectedForPortfolio[portfolioId[1]] IN
       IF nodeType \in {"rotate", "sell", "buy", "priceTarget"}
       THEN LET newNodeId == [kind |-> nodeType, n |-> Count(nodeType) + 1]
                filtered == SelectSeq(edges, LAMBDA e :
                                ~(e.source = sourceNodeId /\ e.target = projectedId))
            IN /\ NodeBudget(max)
               /\ Mount(nodeType, newNodeId, nodes \cup {newNodeId},
                        filtered \o << [source |-> sourceNodeId, target |-> newNodeId],
                                       [source |-> newNodeId, target |-> projectedId] >>)
               /\ UNCHANGED <<projectedForPortfolio, projectedCount>>
       ELSE /\ allInRequest = Null
            /\ allInRequest' = Some([source |-> sourceNodeId, toAsset |-> "B"])
            /\ UNCHANGED <<nodes, edges, portfolioHoldings, rotations, sells, buys,
                           priceTargets, rotationInputs, sellInputs, buyInputs,
                           priceTargetInputs, rotationCount, sellCount, buyCount,
                           priceTargetCount, projectedForPortfolio, projectedCount,
                           portfolioCount, lookups, refresh>>

handleAddChainedNode(sourceNodeId, nodeType) ==
    AddChainedNode(sourceNodeId, nodeType, MaxNodes)

\* the user edits a node's fields; the component saves them (handle*InputChange)
\* and reports its record (handle*Change)
handleRotationInputChange(nodeId, fromAsset, sellAmount, toAsset) ==
    /\ nodeId \in nodes /\ nodeId.kind = "rotate"
    /\ fromAsset \in Tickers(HoldingsAt(nodeId))
    /\ LET inp == RotatePriceEffect(
                    [rotationInputs[nodeId] EXCEPT !.fromAsset = fromAsset,
                        !.sellAmount = sellAmount, !.toAsset = toAsset], <<>>)
       IN /\ inp # rotationInputs[nodeId]
          /\ Render(edges, portfolioHoldings, nodes, Put(rotationInputs, nodeId, inp),
                    sellInputs, buyInputs, priceTargetInputs)
    /\ allInRequest' = Null
    /\ UNCHANGED <<lookups, refresh>>
    /\ UNCHANGED portfolioHoldings
    /\ GraphUnchanged

handleSellInputChange(nodeId, fromAsset, inputMode, inputValue) ==
    /\ nodeId \in nodes /\ nodeId.kind = "sell"
    /\ fromAsset \in Tickers(HoldingsAt(nodeId))
    /\ LET inp == [fromAsset |-> fromAsset, inputMode |-> inputMode,
                   inputValue |-> inputValue]
       IN /\ inp # sellInputs[nodeId]
          /\ Render(edges, portfolioHoldings, nodes, rotationInputs,
                    Put(sellInputs, nodeId, inp), buyInputs, priceTargetInputs)
    /\ allInRequest' = Null
    /\ UNCHANGED <<lookups, refresh>>
    /\ UNCHANGED portfolioHoldings
    /\ GraphUnchanged

handleBuyInputChange(nodeId, inputMode, inputValue, toAsset) ==
    /\ nodeId \in nodes /\ nodeId.kind = "buy"
    /\ LET inp == [buyInputs[nodeId] EXCEPT !.inputMode = inputMode,
                       !.inputValue = inputValue, !.toAsset = toAsset]
       IN /\ inp # buyInputs[nodeId]
          /\ Render(edges, portfolioHoldings, nodes, rotationInputs, sellInputs,
                    Put(buyInputs, nodeId, inp), priceTargetInputs)
    /\ allInRequest' = Null
    /\ UNCHANGED <<lookups, refresh>>
    /\ UNCHANGED portfolioHoldings
    /\ GraphUnchanged

handlePriceTargetInputChange(nodeId, asset, targetValue) ==
    /\ nodeId \in nodes /\ nodeId.kind = "priceTarget"
    /\ asset \in Tickers(HoldingsAt(nodeId)) \ {"USD"}
    /\ LET inp == [asset |-> asset, targetValue |-> targetValue]
       IN /\ inp # priceTargetInputs[nodeId]
          /\ Render(edges, portfolioHoldings, nodes, rotationInputs, sellInputs,
                    buyInputs, Put(priceTargetInputs, nodeId, inp))
    /\ allInRequest' = Null
    /\ UNCHANGED <<lookups, refresh>>
    /\ UNCHANGED portfolioHoldings
    /\ GraphUnchanged

\* refreshPrices
refreshPrices(holdingsToRefresh) ==
    [i \in 1..Len(holdingsToRefresh) |->
        LET holding == holdingsToRefresh[i]
            got == fetchPrice(holding.ticker)
        IN IF holding.ticker = "USD" \/ holding.ticker = "CASH" THEN holding
           ELSE [holding EXCEPT
                    !.price = IF got.price # Null THEN got.price ELSE holding.price,
                    !.type = IF got.type # "unknown" THEN got.type ELSE holding.type,
                    !.value = IF Truthy(got.price)
                              THEN Some(Num(got.price) * holding.amount)
                              ELSE holding.value]]

RefreshInputs(inputsById) ==
    [n \in DOMAIN inputsById |->
        LET inputs == inputsById[n]
            got == fetchPrice(inputs.toAsset)
        IN IF inputs.toAsset = "" THEN inputs
           ELSE [inputs EXCEPT
                    !.toPrice = IF got.price # Null THEN got.price ELSE inputs.toPrice,
                    !.toType = IF got.type # "unknown" THEN got.type ELSE inputs.toType]]

\* the page is loaded again from the state it saved, and prices are refreshed
loadAndRefresh ==
    LET H == [p \in DOMAIN portfolioHoldings |-> refreshPrices(portfolioHoldings[p])]
    IN /\ portfolioHoldings' = H
       /\ Render(edges, H, nodes, RefreshInputs(rotationInputs), sellInputs,
                 RefreshInputs(buyInputs), priceTargetInputs)
       /\ allInRequest' = Null
       /\ UNCHANGED <<lookups, refresh>>
       /\ GraphUnchanged

Next ==
    \/ \E h \in HoldChoices : addHolding(h[1], h[2])
    \/ \E i \in 1..MaxHoldings : removeHolding(i)
    \/ handleAddRotation(P1)
    \/ handleAddSell(P1)
    \/ handleAddBuy(P1)
    \/ handleAddPriceTarget(P1)
    \/ \E s \in ActionNodes, ty \in ChainTypes : handleAddChainedNode(s, ty)
    \/ \E n \in ActionNodes, f \in AllTickers, a \in RotateAmounts, t \in BuyTickers :
          handleRotationInputChange(n, f, a, t)
    \/ \E n \in ActionNodes, f \in AllTickers, c \in SellChoices :
          handleSellInputChange(n, f, c[1], c[2])
    \/ \E n \in ActionNodes, c \in BuyChoices, t \in BuyTickers :
          handleBuyInputChange(n, c[1], c[2], t)
    \/ \E n \in ActionNodes, t \in AllTickers, v \in TargetValues :
          handlePriceTargetInputChange(n, t, v)
    \/ loadAndRefresh

Spec == Init /\ [][Next]_vars

\* the editor with chains of price targets and buys only, one more node allowed
NextTargets ==
    \/ addHolding("A", 32)
    \/ AddFirstLevel("priceTarget", P1, MaxTargets)
    \/ AddFirstLevel("buy", P1, MaxTargets)
    \/ \E s \in ActionNodes, ty \in {"priceTarget", "buy"} :
          AddChainedNode(s, ty, MaxTargets)
    \/ \E n \in ActionNodes, v \in WideTargetValues :
          handlePriceTargetInputChange(n, "A", v)
    \/ \E n \in ActionNodes : handleBuyInputChange(n, "units", 8, "A")

SpecTargets == Init /\ [][NextTargets]_vars

\* the editor with sells only, and the "+ All-In" button of a node pressed
NextAllIn ==
    \/ \E h \in HoldChoices : addHolding(h[1], h[2])
    \/ handleAddSell(P1)
    \/ \E s \in ActionNodes, ty \in {"sell", "allIn"} : handleAddChainedNode(s, ty)
    \/ \E n \in ActionNodes, f \in AllTickers, c \in SellChoices :
          handleSellInputChange(n, f, c[1], c[2])

SpecAllIn == Init /\ [][NextAllIn]_vars

----------------------------------------------------------------------------
(* The folds of the current state *)

\* the runs of calculateProjectedHoldings(P1): before the fold, after each operation
ProjRuns == ProjectedRuns(edges, portfolioHoldings, Recs, P1)
ProjOps == ProjectedOps(edges, Recs, P1)
Projected == Ledger(Last(ProjRuns))

\* the runs of computeHoldingsUpTo(P1, n)
SnapRuns(n) == UpToRuns(edges, portfolioHoldings, Recs, P1, n)
SnapOps(n) == UpToOps(edges, Recs, P1, n)

\* every ledger the two folds return in this state
ReturnedLedgers == {Projected} \cup {Ledger(Last(SnapRuns(n))) : n \in ActionNodes}

\* every ledger a fold holds after one of its operations
LedgersAfterOps ==
    {Ledger(ProjRuns[k]) : k \in 2..Len(ProjRuns)}
        \cup UNION {{Ledger(SnapRuns(n)[k]) : k \in 2..Len(SnapRuns(n))} : n \in ActionNodes}

Unique(L) == \A i, j \in 1..Len(L) : L[i].ticker = L[j].ticker => i = j

----------------------------------------------------------------------------
\* C1: no position of a ledger returned by computeHoldingsUpTo or
\* calculateProjectedHoldings has |amount| <= 1e-6.
EpsilonRemoval ==
    \A L \in ReturnedLedgers : \A i \in 1..Len(L) : Abs(L[i].amount) > EPS

\* C2: no two positions share a ticker, in the base holdings of the portfolio and
\* in every ledger the folds derive from them.
TickerUniqueness ==
    /\ Unique(portfolioHoldings[P1])
    /\ \A L \in ReturnedLedgers : Unique(L)

\* C3: after every operation of a fold every position other than USD has
\* value = amount * price and a USD position has value = amount.
ValueConsistency ==
    \A L \in LedgersAfterOps \cup ReturnedLedgers : \A i \in 1..Len(L) :
        IF L[i].ticker = "USD" THEN L[i].value = Some(L[i].amount)
        ELSE L[i].price # Null /\ L[i].value = Some(L[i].amount * Num(L[i].price))

\* C4: for every rotate the projection fold applies to a ledger that holds the
\* from-position, sellAmount * fromPrice = buyAmount * toPrice, fromPrice being the
\* price of the position in the ledger at the moment of the debit.
RotateConservation ==
    \A k \in 1..Len(ProjOps) :
        (ProjOps[k].op = "debit" /\ ProjOps[k].node.kind = "rotate"
            /\ findIndex(ProjRuns[k], ProjOps[k].ticker) # 0)
        => LET r == rotations[ProjOps[k].node]
               fromPrice == Ledger(ProjRuns[k])[findIndex(ProjRuns[k], r.fromAsset)].price
           IN r.sellAmount * Num(fromPrice) = r.buyAmount * Num(r.toPrice)

\* the valid price targets strictly before N in the first chain that holds N
ExpectedOverrides(N) ==
    LET chains == getOrderedChainNodes(edges, P1)
        own == {c \in 1..Len(chains) : \E j \in 1..Len(chains[c]) : chains[c][j] = N}
    IN IF own = {} THEN <<>>
       ELSE LET chain == chains[Min(own)]
                pos == Min({j \in 1..Len(chain) : chain[j] = N})
                before == {j \in 1..(pos - 1) : ValidTarget(priceTargets, chain[j])}
                last(t) == Max({j \in before : priceTargets[chain[j]].asset = t})
            IN [t \in {priceTargets[chain[j]].asset : j \in before} |->
                    priceTargets[chain[last(t)]].targetPrice[1]]

\* C5: getPriceOverridesUpTo(portfolio, N) maps ticker to price exactly for the
\* valid price targets strictly before N in N's own chain, the last one along the
\* chain winning; targets at or after N or in another chain never appear, and the
\* map is empty when N is first in its chain or in no chain.
OverrideScoping ==
    \A N \in nodes :
        getPriceOverridesUpTo(edges, priceTargets, P1, N) = ExpectedOverrides(N)

\* two valid targets of one ticker with different prices lie before a node, and
\* a target of another chain exists
OverrideScopingWitness ==
    \E N \in nodes :
        LET prefix == PrefixBefore(edges, P1, N) IN
        /\ \E i, j \in 1..Len(prefix) :
              /\ i < j
              /\ ValidTarget(priceTargets, prefix[i]) /\ ValidTarget(priceTargets, prefix[j])
              /\ priceTargets[prefix[i]].asset = priceTargets[prefix[j]].asset
              /\ priceTargets[prefix[i]].targetPrice # priceTargets[prefix[j]].targetPrice
        /\ getPriceOverridesUpTo(edges, priceTargets, P1, N) # <<>>

\* C6: a Rotate or Buy node whose target ticker has an override in the
\* priceOverrides it receives records the override as toPrice, with type 'target',
\* and its record uses that price.
OverrideAuthoritative ==
    \A n \in ActionNodes :
        LET inputs == IF n.kind = "rotate" THEN rotationInputs ELSE buyInputs
            records == IF n.kind = "rotate" THEN rotations ELSE buys
            priceOverrides == OverridesFor(edges, Recs, n)
        IN (n.kind \in {"rotate", "buy"} /\ Has(inputs, n)
                /\ Has(priceOverrides, inputs[n].toAsset))
           => /\ inputs[n].toPrice = Some(priceOverrides[inputs[n].toAsset])
              /\ inputs[n].toType = "target"
              /\ Has(records, n) =>
                    /\ records[n].toPrice = Some(priceOverrides[inputs[n].toAsset])
                    /\ records[n].toType = "target"

\* the base position objects after a fold that ran on them
BaseAfter(runs) == SubSeq(Last(runs).heap, 1, Len(portfolioHoldings[P1]))

\* C7: a call of calculateProjectedHoldings or computeHoldingsUpTo leaves the
\* position objects of the base holdings unchanged, and a second call with the
\* same graph and parameters returns a deep-equal ledger in the same order.
ProjectionIdempotent ==
    /\ BaseAfter(ProjRuns) = portfolioHoldings[P1]
    /\ calculateProjectedHoldings(edges, Put(portfolioHoldings, P1, BaseAfter(ProjRuns)),
                                  Recs, P1) = Projected
    /\ \A n \in ActionNodes :
          /\ BaseAfter(SnapRuns(n)) = portfolioHoldings[P1]
          /\ computeHoldingsUpTo(edges, Put(portfolioHoldings, P1, BaseAfter(SnapRuns(n))),
                                 Recs, P1, n) = Ledger(Last(SnapRuns(n)))

\* the projection debits or credits a position copied from the base holdings
ProjectionIdempotentWitness ==
    \E k \in 1..Len(ProjOps) :
        /\ ProjOps[k].op \in {"debit", "credit"}
        /\ findIndex(ProjRuns[k], ProjOps[k].ticker) # 0
        /\ ProjRuns[k].arr[findIndex(ProjRuns[k], ProjOps[k].ticker)]
              <= 2 * Len(portfolioHoldings[P1])
        /\ Projected # portfolioHoldings[P1]

RECURSIVE Sum(_)
Sum(seq) == IF seq = <<>> THEN 0 ELSE Head(seq) + Sum(Tail(seq))

SumOver(ids, Term(_)) == Sum([i \in 1..Len(ids) |-> Term(ids[i])])

\* the sellValue of the applied sells minus the cashAmount of the applied buys
NetCashDelta ==
    SumOver(Flat(getOrderedChainNodes(edges, P1)),
            LAMBDA n : IF n.kind = "sell" /\ Has(sells, n) THEN sells[n].sellValue
                       ELSE IF n.kind = "buy" /\ Has(buys, n) THEN 0 - buys[n].cashAmount
                       ELSE 0)

Reconciled(pre, D) ==
    LET i == find(pre, "USD")
        amt == (IF i = 0 THEN 0 ELSE pre[i].amount) + D
    IN IF D = 0 THEN pre
       ELSE IF Abs(amt) <= EPS THEN (IF i = 0 THEN pre ELSE RemoveAt(pre, i))
       ELSE IF i = 0 THEN Append(pre, Position("USD", amt, Some(1), "cash", Some(amt)))
       ELSE [pre EXCEPT ![i].amount = amt, ![i].value = Some(amt)]

\* C8: at the end of a projection the net cash delta D is folded into the ledger:
\* unchanged if D = 0; otherwise the USD position (created with price 1 and type
\* cash if absent) gets amount + D and value = amount, and is removed when the
\* resulting amount is within epsilon of zero.
CashReconciliation ==
    Ledger(ProjRuns[Len(ProjRuns) - 1])
        = Reconciled(Ledger(ProjRuns[Len(ProjRuns) - 2]), NetCashDelta)

\* every debit of the folds of this state: the ledger before, the operation, the
\* ledger after
DebitsOf(runs, ops) ==
    {<<Ledger(runs[k]), ops[k], Ledger(runs[k + 1])>> :
        k \in {j \in 1..Len(ops) : ops[j].op = "debit"}}

Debits ==
    DebitsOf(ProjRuns, ProjOps)
        \cup UNION {DebitsOf(SnapRuns(n), SnapOps(n)) : n \in ActionNodes}

Debited(L, i, a) ==
    [L EXCEPT ![i].amount = @ - a, ![i].value = Some((L[i].amount - a) * Num(L[i].price))]

\* C9 as stated: a ledger without T is unchanged; otherwise T's amount becomes
\* old - a with value recomputed, and the position is removed exactly when
\* |old - a| <= 1e-6, so an oversell leaves a negative position in the ledger.
DebitRemovesWithinEpsilon ==
    \A d \in Debits :
        LET i == find(d[1], d[2].ticker) IN
        IF i = 0 THEN d[3] = d[1]
        ELSE IF Abs(d[1][i].amount - d[2].amount) <= EPS THEN d[3] = RemoveAt(d[1], i)
        ELSE d[3] = Debited(d[1], i, d[2].amount)

\* C9 as amended: a ledger without T is unchanged; otherwise T's amount becomes
\* old - a with value recomputed, and the position is removed exactly when
\* old - a <= 1e-6, so an oversell removes the position.
DebitRemovesDepleted ==
    \A d \in Debits :
        LET i == find(d[1], d[2].ticker) IN
        IF i = 0 THEN d[3] = d[1]
        ELSE IF d[1][i].amount - d[2].amount <= EPS THEN d[3] = RemoveAt(d[1], i)
        ELSE d[3] = Debited(d[1], i, d[2].amount)

\* the folds debit one position by less than it holds and one by more than it
\* holds
DebitWitness ==
    /\ \E d \in Debits : find(d[1], d[2].ticker) # 0
          /\ d[1][find(d[1], d[2].ticker)].amount - d[2].amount > EPS
    /\ \E d \in Debits : find(d[1], d[2].ticker) # 0
          /\ d[1][find(d[1], d[2].ticker)].amount - d[2].amount < 0 - EPS

\* the ledger the chain has produced once node s has acted
LedgerAfter(s) ==
    Ledger(Last(<<CloneHoldings(portfolioHoldings[P1])>>
                  \o Trace(CloneHoldings(portfolioHoldings[P1]),
                           FoldOps(Recs, PrefixBeforeInclusive(edges, P1, s)))))

TotalValue(L) == SumOver(L, LAMBDA h : Num(h.value))

\* C10: a chain ending in an AllIn(toTicker, toPrice) action with toPrice > 0
\* projects to a ledger in which every position held before the action is
\* liquidated and toTicker holds totalValue / toPrice units, totalValue being the
\* sum of the position values of the snapshot before the action.
AllInProjection ==
    (allInRequest # Null
        /\ Flat(getOrderedChainNodes(edges, P1))
              = PrefixBeforeInclusive(edges, P1, allInRequest[1].source)
        /\ TotalValue(LedgerAfter(allInRequest[1].source)) > 0)
    => LET toPrice == Num(fetchPrice(allInRequest[1].toAsset).price)
           totalValue == TotalValue(LedgerAfter(allInRequest[1].source))
       IN /\ Len(Projected) = 1
          /\ Projected[1].ticker = allInRequest[1].toAsset
          /\ Projected[1].amount * toPrice = totalValue

----------------------------------------------------------------------------
(* AllInNode: the amount of the target asset an all-in conversion yields.   *)
(* The sum of the position values is a left-to-right reduce of IEEE-754     *)
(* additions, each rounded to nearest, ties to even; the model keeps that   *)
(* rounding at a significand of MantissaBits bits instead of 53.            *)

\* the spacing of the representable numbers at the magnitude of x >= 0
RECURSIVE Ulp(_)
Ulp(x) == IF x < 2 ^ MantissaBits THEN 1 ELSE 2 * Ulp(x \div 2)

RoundNearestEven(x) ==
    LET u == Ulp(x)
        lo == (x \div u) * u
    IN IF 2 * (x - lo) < u THEN lo
       ELSE IF 2 * (x - lo) > u THEN lo + u
       ELSE IF (lo \div u) % 2 = 0 THEN lo ELSE lo + u

\* the Number a + b
FloatAdd(a, b) ==
    IF a + b < 0 THEN 0 - RoundNearestEven(0 - (a + b)) ELSE RoundNearestEven(a + b)

\* holdings.reduce((sum, h) => sum + (h.value || 0), 0)
RECURSIVE ReduceValues(_, _)
ReduceValues(sum, holdings) ==
    IF holdings = <<>> THEN sum
    ELSE ReduceValues(FloatAdd(sum, Num(Head(holdings).value)), Tail(holdings))

totalValue(holdings) == ReduceValues(0, holdings)

\* toPrice && totalValue > 0 ? totalValue / toPrice : 0
allInAmount(holdings, toPrice) ==
    IF Truthy(toPrice) /\ totalValue(holdings) > 0
    THEN Div(totalValue(holdings), Num(toPrice))
    ELSE 0

\* amounts and target prices typed by the user; every product amount * price
\* is a representable number
LedgerAmounts == {8, 64}
AllInPrices == {1, 2, 4}

\* a portfolio of up to MaxLedger positions, and no action node: the holdings
\* an all-in node mounted under the portfolio is handed are the base holdings
NextAllInNode ==
    \/ \E t \in AllTickers, a \in LedgerAmounts : AddHolding(t, a, MaxLedger)
    \/ \E i \in 1..MaxLedger : removeHolding(i)

SpecAllInNode == Init /\ [][NextAllInNode]_vars

Orderings(n) == {p \in [1..n -> 1..n] : \A i, j \in 1..n : p[i] = p[j] => i = j}

Permuted(seq, p) == [i \in 1..Len(seq) |-> seq[p[i]]]

\* C11: the amount of the target asset an all-in conversion computes,
\* totalValue / toPrice, is the same for every permutation of the positions of
\* the ledger it is handed.
AllInOrderIndependence ==
    \A p \in Orderings(Len(portfolioHoldings[P1])), toPrice \in AllInPrices :
        allInAmount(Permuted(portfolioHoldings[P1], p), Some(toPrice))
            = allInAmount(portfolioHoldings[P1], Some(toPrice))

----------------------------------------------------------------------------
(* Actions on positions without a price *)

\* the editor with a ticker the price lookup does not know ("X")
NextNoPrice ==
    \/ \E h \in {<<"X", 32>>, <<"A", 32>>} : addHolding(h[1], h[2])
    \/ handleAddRotation(P1)
    \/ handleAddSell(P1)
    \/ handleAddBuy(P1)
    \/ \E n \in ActionNodes, f \in {"X", "A"}, t \in {"B", "X"} :
          handleRotationInputChange(n, f, 32, t)
    \/ \E n \in ActionNodes, f \in {"X", "A"}, c \in SellChoices :
          handleSellInputChange(n, f, c[1], c[2])
    \/ \E n \in ActionNodes, c \in BuyChoices, t \in {"B", "X"} :
          handleBuyInputChange(n, c[1], c[2], t)
    \/ loadAndRefresh

SpecNoPrice == Init /\ [][NextNoPrice]_vars

\* the price of the position of ticker t in the holdings node n is handed has a
\* usable value (or n is handed no such position)
FromPricePresent(n, t) ==
    find(HoldingsAt(n), t) # 0 => Truthy(HoldingsAt(n)[find(HoldingsAt(n), t)].price)

\* C12: a rotate, sell or buy whose required price is null or zero (the price of
\* the from-position for rotate and sell, toPrice for rotate and buy) is never
\* recorded in rotations, sells or buys, so no fold debits, credits or moves cash
\* for it.
InactiveOnMissingPrice ==
    \A n \in ActionNodes :
        /\ Has(rotations, n) =>
              FromPricePresent(n, rotations[n].fromAsset) /\ Truthy(rotations[n].toPrice)
        /\ Has(sells, n) => FromPricePresent(n, sells[n].fromAsset)
        /\ Has(buys, n) => Truthy(buys[n].toPrice)

----------------------------------------------------------------------------
(* Editing the graph: removing nodes, portfolios and manual connections *)

MaxGraphNodes == 3   \* action nodes ever created in SpecGraph
MaxPortfolios == 2   \* portfolio nodes ever created in SpecGraph

PortfolioNodes == {n \in nodes : n.kind = "portfolio"}

Keep(E, gone) == SelectSeq(E, LAMBDA e : ~(e.source \in gone) /\ ~(e.target \in gone))

HasEdge(E, s, t) == \E i \in 1..Len(E) : E[i].source = s /\ E[i].target = t

\* Render started from the records X that a cleanup has left
RenderFrom(E, H, N, RI, SI, PI, X) ==
    Commit(Settle(E, H, N, RI, SI, PI, X, Cardinality(N)), RI, SI, PI)

\* the records and inputs without the entries of the nodes in gone
Cleaned(gone) ==
    [rotations |-> Del(rotations, gone), sells |-> Del(sells, gone),
     buys |-> Del(buys, gone), priceTargets |-> Del(priceTargets, gone),
     buyInputs |-> Del(buyInputs, gone)]

CountersUnchanged ==
    UNCHANGED <<rotationCount, sellCount, buyCount, priceTargetCount, projectedCount,
                portfolioCount>>

\* removeActionNode, the setEdges updater: the edges of nodeId go, and its first
\* incoming edge is joined to its first outgoing edge when that one leads to an
\* action node and the joined edge is not there yet
SpliceOut(E, nodeId) ==
    LET inc == FirstIndex(E, LAMBDA e : e.target = nodeId)
        out == FirstIndex(E, LAMBDA e : e.source = nodeId)
        newEdges == Keep(E, {nodeId})
    IN IF inc # 0 /\ out # 0 /\ isActionNode(E[out].target)
          /\ ~HasEdge(newEdges, E[inc].source, E[out].target)
       THEN Append(newEdges, [source |-> E[inc].source, target |-> E[out].target])
       ELSE newEdges

\* the portfolios among ps whose projected node the cleanup takes away: those
\* left without an edge to an action node in E that have a projected node
Emptied(ps, E, F) ==
    {p \in ps : Len(getActionNodesForPortfolio(p, E)) = 0 /\ Has(F, p)}

\* removeActionNode(nodeId, cleanupState) together with the cleanup its
\* setTimeout(..., 0) runs
removeActionNode(nodeId) ==
    /\ nodeId \in nodes /\ isActionNode(nodeId)
    /\ LET sourcePortfolioId == getSourcePortfolioForAction(edges, nodeId)
           newEdges == SpliceOut(edges, nodeId)
           emptied == Emptied(IF sourcePortfolioId = Null THEN {}
                              ELSE {sourcePortfolioId[1]},
                              newEdges, projectedForPortfolio)
           N == (nodes \ {nodeId}) \ {projectedForPortfolio[p] : p \in emptied}
       IN /\ nodes' = N
          /\ edges' = newEdges
          /\ projectedForPortfolio' = Del(projectedForPortfolio, emptied)
          /\ RenderFrom(newEdges, portfolioHoldings, N, Del(rotationInputs, {nodeId}),
                        Del(sellInputs, {nodeId}), Del(priceTargetInputs, {nodeId}),
                        Cleaned({nodeId}))
    /\ UNCHANGED portfolioHoldings
    /\ CountersUnchanged
    /\ allInRequest' = Null
    /\ UNCHANGED <<lookups, refresh>>

handleRemoveRotation(nodeId) == nodeId.kind = "rotate" /\ removeActionNode(nodeId)
handleRemoveSell(nodeId) == nodeId.kind = "sell" /\ removeActionNode(nodeId)
handleRemoveBuy(nodeId) == nodeId.kind = "buy" /\ removeActionNode(nodeId)
handleRemovePriceTarget(nodeId) == nodeId.kind = "priceTarget" /\ removeActionNode(nodeId)

\* handleNodesChange with the 'remove' changes of the nodes in deleted (the
\* canvas also reports the removal of the edges of a deleted node).  The state
\* updaters run in the order they were queued: the updater that looks for the
\* affected portfolios gets the edges the updaters before it have filtered.
handleNodesChange(deleted) ==
    /\ deleted # {} /\ deleted \subseteq nodes
    /\ LET deletedPortfolioIds == {d \in deleted : d.kind = "portfolio"}
           allDeletedActionIds == {d \in deleted : isActionNode(d)}
           projectedToRemove ==
               {projectedForPortfolio[p] :
                    p \in deletedPortfolioIds \cap DOMAIN projectedForPortfolio}
           F == Del(projectedForPortfolio, deletedPortfolioIds)
           prevEdges == Keep(edges, deleted)
           affectedPortfolios ==
               {prevEdges[i].source : i \in {j \in 1..Len(prevEdges) :
                    prevEdges[j].target \in allDeletedActionIds
                    /\ prevEdges[j].source.kind = "portfolio"}}
           remainingEdges == Keep(prevEdges, allDeletedActionIds)
           emptied == Emptied(affectedPortfolios, remainingEdges, F)
           N == ((nodes \ deleted) \ projectedToRemove)
                    \ {F[p] : p \in emptied}
           H == Del(portfolioHoldings, deletedPortfolioIds)
       IN /\ nodes' = N
          /\ edges' = remainingEdges
          /\ portfolioHoldings' = H
          /\ projectedForPortfolio' = Del(F, emptied)
          /\ RenderFrom(remainingEdges, H, N, Del(rotationInputs, allDeletedActionIds),
                        Del(sellInputs, allDeletedActionIds),
                        Del(priceTargetInputs, allDeletedActionIds),
                        Cleaned(allDeletedActionIds))
    /\ CountersUnchanged
    /\ allInRequest' = Null
    /\ UNCHANGED <<lookups, refresh>>

\* handleDuplicatePortfolio
handleDuplicatePortfolio(sourceNodeId, max) ==
    /\ sourceNodeId \in PortfolioNodes
    /\ portfolioCount < max
    /\ LET newPortfolioId == [kind |-> "portfolio", n |-> portfolioCount + 1]
           H == Put(portfolioHoldings, newPortfolioId,
                    HoldingsOf(portfolioHoldings, sourceNodeId))
       IN /\ portfolioCount' = portfolioCount + 1
          /\ nodes' = nodes \cup {newPortfolioId}
          /\ portfolioHoldings' = H
          /\ Render(edges, H, nodes \cup {newPortfolioId}, rotationInputs, sellInputs,
                    buyInputs, priceTargetInputs)
    /\ UNCHANGED <<edges, rotationCount, sellCount, buyCount, priceTargetCount,
                   projectedForPortfolio, projectedCount>>
    /\ allInRequest' = Null
    /\ UNCHANGED <<lookups, refresh>>

\* handleRemovePortfolio; the button shows when there is more than one portfolio
handleRemovePortfolio(portfolioId) ==
    /\ portfolioId \in PortfolioNodes
    /\ Cardinality(PortfolioNodes) > 1
    /\ LET ids == getActionNodesForPortfolio(portfolioId, edges)
           connectedActionIds == {ids[i] : i \in 1..Len(ids)}
           projectedId == IF Has(projectedForPortfolio, portfolioId)
                          THEN {projectedForPortfolio[portfolioId]} ELSE {}
           N == ((nodes \ {portfolioId}) \ connectedActionIds) \ projectedId
           E == Keep(edges, {portfolioId} \cup connectedActionIds)
           H == Del(portfolioHoldings, {portfolioId})
       IN /\ nodes' = N
          /\ edges' = E
          /\ portfolioHoldings' = H
          /\ projectedForPortfolio' = Del(projectedForPortfolio, {portfolioId})
          /\ RenderFrom(E, H, N, Del(rotationInputs, connectedActionIds),
                        Del(sellInputs, connectedActionIds),
                        Del(priceTargetInputs, connectedActionIds),
                        Cleaned(connectedActionIds))
    /\ CountersUnchanged
    /\ allInRequest' = Null
    /\ UNCHANGED <<lookups, refresh>>

\* the editor of the graph: nodes are added, chained, removed with their button
\* or deleted on the canvas, portfolios are duplicated and removed
NextGraph ==
    \/ \E p \in PortfolioNodes, kind \in ActionKinds : AddFirstLevel(kind, p, MaxGraphNodes)
    \/ \E s \in ActionNodes, ty \in ActionKinds : AddChainedNode(s, ty, MaxGraphNodes)
    \/ \E n \in ActionNodes : handleRemoveRotation(n)
    \/ \E n \in ActionNodes : handleRemoveSell(n)
    \/ \E n \in ActionNodes : handleRemoveBuy(n)
    \/ \E n \in ActionNodes : handleRemovePriceTarget(n)
    \/ \E n \in nodes : handleNodesChange({n})
    \/ \E p \in PortfolioNodes : handleDuplicatePortfolio(p, MaxPortfolios)
    \/ \E p \in PortfolioNodes : handleRemovePortfolio(p)

SpecGraph == Init /\ [][NextGraph]_vars

\* portfolio p has an action node that can be reached from it
HasActionNode(p) ==
    \E i \in 1..Len(edges) :
        edges[i].source = p /\ isActionNode(edges[i].target) /\ edges[i].target \in nodes

\* the projected node of portfolio p is on the canvas
HasProjectedNode(p) ==
    Has(projectedForPortfolio, p) /\ projectedForPortfolio[p] \in nodes

\* C13: after any sequence of editor operations, the deferred cleanup of
\* removeActionNode included, the projected node of a portfolio is among the
\* nodes if and only if the portfolio has at least one action node reachable
\* from it.
ProjectedIffActions ==
    \A p \in PortfolioNodes : HasProjectedNode(p) <=> HasActionNode(p)

----------------------------------------------------------------------------
(* Splicing nodes in and out of a chain *)

\* the editor with the add handlers and the remove buttons of the action nodes
NextSplice ==
    \/ \E kind \in ActionKinds : AddFirstLevel(kind, P1, MaxGraphNodes)
    \/ \E s \in ActionNodes, ty \in ActionKinds : AddChainedNode(s, ty, MaxGraphNodes)
    \/ \E n \in ActionNodes : removeActionNode(n)

SpecSplice == Init /\ [][NextSplice]_vars

\* the edges of E from node n to an action node
ActionSuccessors(E, n) ==
    {i \in 1..Len(E) : E[i].source = n /\ isActionNode(E[i].target)}

\* C14: after any sequence of handleAddRotation/Sell/Buy/PriceTarget,
\* handleAddChainedNode (on any action node, also one that has an action
\* successor already) and removeActionNode, every action node has at most one
\* outgoing edge whose target is an action node.
SingleSuccessor ==
    \A n \in ActionNodes : Cardinality(ActionSuccessors(edges, n)) <= 1

----------------------------------------------------------------------------
(* Manual connections *)

\* handleConnect: the user draws an edge from the source handle of a portfolio
\* or action node to the target handle of an action or projected node
handleConnect(source, target) ==
    /\ source \in nodes /\ target \in nodes /\ source # target
    /\ source.kind = "portfolio" \/ isActionNode(source)
    /\ isActionNode(target) \/ target.kind = "projected"
    /\ ~HasEdge(edges, source, target)
    /\ LET E == Append(edges, [source |-> source, target |-> target])
       IN /\ edges' = E
          /\ Render(E, portfolioHoldings, nodes, rotationInputs, sellInputs, buyInputs,
                    priceTargetInputs)
    /\ UNCHANGED <<nodes, portfolioHoldings, projectedForPortfolio>>
    /\ CountersUnchanged
    /\ allInRequest' = Null
    /\ UNCHANGED <<lookups, refresh>>

\* the editor of the graph with manual connections, sells and buys only
ConnectKinds == {"sell", "buy"}
MaxEdges == 4        \* edges on the canvas when a manual connection is drawn

NextConnect ==
    \/ \E p \in PortfolioNodes, kind \in ConnectKinds : AddFirstLevel(kind, p, MaxNodes)
    \/ \E s \in ActionNodes, ty \in ConnectKinds : AddChainedNode(s, ty, MaxNodes)
    \/ \E n \in ActionNodes : removeActionNode(n)
    \/ \E p \in PortfolioNodes : handleDuplicatePortfolio(p, MaxPortfolios)
    \/ \E s \in nodes, t \in nodes : Len(edges) < MaxEdges /\ handleConnect(s, t)

SpecConnect == Init /\ [][NextConnect]_vars

\* the nodes that can be reached from the nodes of S along the edges of E
RECURSIVE ReachableFrom(_, _)
ReachableFrom(E, S) ==
    LET next == S \cup {E[i].target : i \in {j \in 1..Len(E) : E[j].source \in S}}
    IN IF next = S THEN S ELSE ReachableFrom(E, next)

\* the edges of E into node n that come from a portfolio or an action node
UpstreamEdges(E, n) ==
    {i \in 1..Len(E) : E[i].target = n
                        /\ (E[i].source.kind = "portfolio" \/ isActionNode(E[i].source))}

\* C15: after any sequence of editor operations, manual connections through
\* handleConnect included, every action node has at most one incoming edge from
\* a portfolio or an action node and is reachable from exactly one portfolio.
SingleUpstream ==
    \A n \in ActionNodes :
        /\ Cardinality(UpstreamEdges(edges, n)) <= 1
        /\ Cardinality({p \in PortfolioNodes : n \in ReachableFrom(edges, {p})}) = 1

----------------------------------------------------------------------------
(* Chain resolution on arbitrary edge lists *)

\* the edges of E from the portfolio to an action node, in the order of E
FirstLevelEdges(E, portfolioId) ==
    SelectSeq(E, LAMBDA e : e.source = portfolioId /\ isActionNode(e.target))

\* the index in E of the first edge from node n to an action node, 0 if none
NextEdge(E, n) == FirstIndex(E, LAMBDA e : e.source = n /\ isActionNode(e.target))

InChain(chain, n) == \E k \in 1..Len(chain) : chain[k] = n

\* chain is the walk from start: action nodes only, each the target of the
\* first edge to an action node of the one before, none twice, and ended where
\* no such edge leaves or it leads back into the chain
WellFormedChain(E, chain, start) ==
    /\ Len(chain) >= 1 /\ chain[1] = start
    /\ \A k \in 1..Len(chain) : isActionNode(chain[k])
    /\ \A j, k \in 1..Len(chain) : chain[j] = chain[k] => j = k
    /\ \A k \in 1..(Len(chain) - 1) :
          NextEdge(E, chain[k]) # 0 /\ E[NextEdge(E, chain[k])].target = chain[k + 1]
    /\ NextEdge(E, chain[Len(chain)]) # 0
          => InChain(chain, E[NextEdge(E, chain[Len(chain)])].target)

\* C16: on every edge list, cycles among action nodes included,
\* getOrderedChainNodes returns one chain per edge from the portfolio to an
\* action node; each chain starts at that edge's target, follows only edges
\* whose target is an action node and holds no node twice.
ChainResolution ==
    \A p \in PortfolioNodes :
        /\ Len(getOrderedChainNodes(edges, p)) = Len(FirstLevelEdges(edges, p))
        /\ \A c \in 1..Len(FirstLevelEdges(edges, p)) :
              WellFormedChain(edges, getOrderedChainNodes(edges, p)[c],
                              FirstLevelEdges(edges, p)[c].target)

\* a chain of two nodes that stops at an edge leading back into the chain,
\* while an edge to the projected node leaves one of its nodes
ChainResolutionWitness ==
    \E p \in PortfolioNodes :
        \E c \in 1..Len(getOrderedChainNodes(edges, p)) :
            LET chain == getOrderedChainNodes(edges, p)[c] IN
            /\ Len(chain) = 2
            /\ NextEdge(edges, chain[2]) # 0
            /\ \E i \in 1..Len(edges) : InChain(chain, edges[i].source)
                                         /\ edges[i].target.kind = "projected"

----------------------------------------------------------------------------
(* The source portfolio of an action node *)

\* the portfolios from which node n can be reached along the edges of E
PortfoliosReaching(E, n) ==
    {E[i].source : i \in {j \in 1..Len(E) :
        E[j].source.kind = "portfolio" /\ n \in ReachableFrom(E, {E[j].source})}}

InSomeChain(chains, n) == \E c \in 1..Len(chains) : InChain(chains[c], n)

\* C17: getSourcePortfolioForAction(n) returns a portfolio P only if n can be
\* reached from P along the edges, returns null when no portfolio can be
\* reached backward from n, and whenever it returns P, n is a member of one of
\* the chains getOrderedChainNodes(P) returns.
SourcePortfolioInChains ==
    \A n \in ActionNodes :
        LET P == getSourcePortfolioForAction(edges, n) IN
        /\ P # Null => P[1] \in PortfoliosReaching(edges, n)
        /\ PortfoliosReaching(edges, n) = {} => P = Null
        /\ P # Null => InSomeChain(getOrderedChainNodes(edges, P[1]), n)

----------------------------------------------------------------------------
(* Price targets seen downstream *)

\* the editor with a chain of a buy followed by price targets
NextDownstream ==
    \/ addHolding("A", 32)
    \/ AddFirstLevel("buy", P1, MaxTargets)
    \/ \E s \in ActionNodes : AddChainedNode(s, "priceTarget", MaxTargets)
    \/ \E n \in ActionNodes, t \in BuyTickers : handleBuyInputChange(n, "units", 8, t)
    \/ \E n \in ActionNodes, t \in BuyTickers, v \in WideTargetValues :
          handlePriceTargetInputChange(n, t, v)
    \/ loadAndRefresh

SpecDownstream == Init /\ [][NextDownstream]_vars

Amounts(L) == [i \in 1..Len(L) |-> <<L[i].ticker, L[i].amount>>]

\* the snapshot of node n computed without any price target
SnapshotWithoutTargets(n) ==
    SnapshotFor(edges, portfolioHoldings, [Recs EXCEPT !.priceTargets = <<>>], n)

\* C18: a price target changes no amount and no cash, and it is visible
\* downstream: when a valid PriceTarget(X, p) precedes node N in its chain, the
\* snapshot computeHoldingsUpTo gives N prices every position of X at p, with
\* value p * amount, also when X was acquired by a rotate or buy earlier in the
\* chain and not held in the base portfolio.
TargetVisibleDownstream ==
    \A N \in ActionNodes :
        /\ Amounts(HoldingsAt(N)) = Amounts(SnapshotWithoutTargets(N))
        /\ \A i \in 1..Len(HoldingsAt(N)) :
              Has(ExpectedOverrides(N), HoldingsAt(N)[i].ticker) =>
                 /\ HoldingsAt(N)[i].price
                       = Some(ExpectedOverrides(N)[HoldingsAt(N)[i].ticker])
                 /\ HoldingsAt(N)[i].value
                       = Some(ExpectedOverrides(N)[HoldingsAt(N)[i].ticker]
                                 * HoldingsAt(N)[i].amount)

----------------------------------------------------------------------------
(* The order of the projected ledger *)

\* the run calculateProjectedHoldings(P1) holds before the sort and the one it returns
Reconciled1 == ProjRuns[Len(ProjRuns) - 1]
Sorted1 == Last(ProjRuns)

\* the place in the reconciled ledger of the position at place i of the sorted one
PlaceBefore(i) == IndexOf(Reconciled1.arr, Sorted1.arr[i])

\* C19: the ledger returned by calculateProjectedHoldings is a permutation of
\* the reconciled ledger in order of non-increasing value, a null value counting
\* as 0, and positions of equal value keep the relative order they had before
\* the sort.
SortedByValueStable ==
    /\ Sorted1.heap = Reconciled1.heap
    /\ Len(Sorted1.arr) = Len(Reconciled1.arr)
    /\ \A i \in 1..Len(Sorted1.arr) : PlaceBefore(i) # 0
    /\ \A i, j \in 1..Len(Sorted1.arr) : PlaceBefore(i) = PlaceBefore(j) => i = j
    /\ \A i, j \in 1..Len(Projected) :
          i < j => /\ Num(Projected[i].value) >= Num(Projected[j].value)
                   /\ Num(Projected[i].value) = Num(Projected[j].value)
                         => PlaceBefore(i) < PlaceBefore(j)

\* the sort moved a position, and a position of value null ties with one of value 0
SortedByValueWitness ==
    /\ Sorted1.arr # Reconciled1.arr
    /\ \E i, j \in 1..Len(Projected) :
          Projected[i].value = Null /\ Projected[j].value = Some(0)

----------------------------------------------------------------------------
(* Price targets in the terminal projection *)

\* the action nodes of all chains of P1, in the order the projection enumerates them
AllActionNodes == Flat(getOrderedChainNodes(edges, P1))

\* the places in AllActionNodes of the valid price targets that name ticker t
TargetsOf(t) ==
    {j \in 1..Len(AllActionNodes) :
        ValidTarget(priceTargets, AllActionNodes[j])
        /\ priceTargets[AllActionNodes[j]].asset = t}

\* the position the projection starts from for the base position h
Repriced(h) ==
    IF TargetsOf(h.ticker) = {} THEN h
    ELSE LET p == Num(priceTargets[AllActionNodes[Max(TargetsOf(h.ticker))]].targetPrice)
         IN [h EXCEPT !.price = Some(p), !.value = Some(p * h.amount)]

\* C20: the terminal projection applies price targets unscoped: before any
\* rotate, sell or buy is folded, every base position whose ticker has a valid
\* price target anywhere in any chain of the portfolio is priced at that
\* target, wherever the target sits, and of several targets of one ticker the
\* last in chain enumeration order wins.
UnscopedTargets ==
    Ledger(ProjRuns[1])
        = [i \in 1..Len(portfolioHoldings[P1]) |-> Repriced(portfolioHoldings[P1][i])]

\* a buy is recorded in the first chain, a valid target of a held ticker sits in
\* a later chain, and two valid targets of that ticker differ in price
UnscopedTargetsWitness ==
    \E i \in 1..Len(portfolioHoldings[P1]) :
        LET t == portfolioHoldings[P1][i].ticker IN
        /\ \E j, k \in TargetsOf(t) :
              priceTargets[AllActionNodes[j]].targetPrice
                  # priceTargets[AllActionNodes[k]].targetPrice
        /\ Len(getOrderedChainNodes(edges, P1)) >= 2
        /\ Max(TargetsOf(t)) > Len(getOrderedChainNodes(edges, P1)[1])
        /\ \E b \in DOMAIN buys : InChain(getOrderedChainNodes(edges, P1)[1], b)

----------------------------------------------------------------------------
(* Structural anomalies of the graph *)

\* the targets of the edges of E from node n to an action node
SuccessorNodes(E, n) == {E[i].target : i \in ActionSuccessors(E, n)}

\* the chains of portfolio p follow one action successor of node n and leave
\* another one out
FollowsOneIgnoresOther(E, p, n) ==
    /\ InSomeChain(getOrderedChainNodes(E, p), n)
    /\ \E m \in SuccessorNodes(E, n) : InSomeChain(getOrderedChainNodes(E, p), m)
    /\ \E m \in SuccessorNodes(E, n) : ~InSomeChain(getOrderedChainNodes(E, p), m)

\* C21: structural anomalies are surfaced, not silently resolved: when an
\* action node has more than one outgoing edge to an action node, chain
\* resolution (whose only result is the list of chains it returns) does not
\* return chains that follow one successor and ignore the other.
AnomaliesSurfaced ==
    \A p \in PortfolioNodes, n \in ActionNodes :
        Cardinality(ActionSuccessors(edges, n)) > 1
            => ~FollowsOneIgnoresOther(edges, p, n)

----------------------------------------------------------------------------
(* The snapshot before a node *)

\* the nodes strictly before N in the first chain of P1 that holds N
NodesBefore(N) ==
    LET chains == getOrderedChainNodes(edges, P1)
        own == {c \in 1..Len(chains) : InChain(chains[c], N)}
    IN IF own = {} THEN <<>>
       ELSE SubSeq(chains[Min(own)], 1,
                   Min({j \in 1..Len(chains[Min(own)]) : chains[Min(own)][j] = N}) - 1)

\* what one node of a chain does to a run when the nodes act one after the
\* other: a valid price target reprices its position where it stands
InOrderOpsOfNode(R, id) ==
    IF ValidTarget(R.priceTargets, id)
    THEN << [op |-> "override", node |-> id, ticker |-> R.priceTargets[id].asset,
             price |-> R.priceTargets[id].targetPrice] >>
    ELSE OpsOfNode(R, id)

RECURSIVE InOrderOps(_, _)
InOrderOps(R, ids) ==
    IF ids = <<>> THEN <<>>
    ELSE InOrderOpsOfNode(R, Head(ids)) \o InOrderOps(R, Tail(ids))

\* the base holdings of P1 with the actions of ids applied in the order of ids,
\* then the cash reconciled
AppliedInOrder(ids) ==
    LET start == CloneHoldings(portfolioHoldings[P1])
    IN IF ids = <<>> THEN Ledger(start)
       ELSE Ledger(Last(Trace(start, InOrderOps(Recs, ids) \o <<[op |-> "reconcile"]>>)))

\* C22: for a node N at index k of a chain of portfolio P,
\* computeHoldingsUpTo(P, N) is the ledger obtained by applying to a copy of the
\* base holdings exactly the actions at indices 0..k-1 of that chain, in chain
\* order, followed by cash reconciliation; for k = 0 or N in no chain it is a
\* copy of the base holdings.
PrefixSnapshot ==
    \A N \in ActionNodes :
        computeHoldingsUpTo(edges, portfolioHoldings, Recs, P1, N)
            = AppliedInOrder(NodesBefore(N))

----------------------------------------------------------------------------
(* Credits *)

\* every credit of the folds of this state: the ledger before, the operation,
\* the ledger after
CreditsOf(runs, ops) ==
    {<<Ledger(runs[k]), ops[k], Ledger(runs[k + 1])>> :
        k \in {j \in 1..Len(ops) : ops[j].op = "credit"}}

Credits ==
    CreditsOf(ProjRuns, ProjOps)
        \cup UNION {CreditsOf(SnapRuns(n), SnapOps(n)) : n \in ActionNodes}

Credited(L, i, b) ==
    [L EXCEPT ![i].amount = @ + b, ![i].value = Some((L[i].amount + b) * Num(L[i].price))]

\* C23: when a rotate or buy credits ticker T with amount b at toPrice, an
\* existing position of T keeps its own price, has its amount increased by b
\* and its value recomputed with its own price; if T is absent, exactly one new
\* position (T, b, toPrice, toType, value b * toPrice) is appended at the end.
CreditSemantics ==
    \A d \in Credits :
        LET i == find(d[1], d[2].ticker) IN
        IF i # 0 THEN d[3] = Credited(d[1], i, d[2].amount)
        ELSE d[3] = Append(d[1], Position(d[2].ticker, d[2].amount, d[2].price, d[2].type,
                                          Some(d[2].amount * Num(d[2].price))))

\* the folds credit a position whose price differs from the toPrice of the
\* action, and credit a ticker the ledger does not hold
CreditWitness ==
    /\ \E d \in Credits : find(d[1], d[2].ticker) # 0
          /\ d[1][find(d[1], d[2].ticker)].price # d[2].price
          /\ d[2].amount > 0
    /\ \E d \in Credits : find(d[1], d[2].ticker) = 0 /\ d[2].amount > 0

----------------------------------------------------------------------------
(* Price lookups of a rotate node.  Typing a destination ticker sets a timer *)
(* of 500 ms; when it fires the request is sent, and its response sets       *)
(* toPrice and toType whenever it arrives.  The effect runs again when        *)
(* toAsset or the saved toPrice changes: it clears the timer that has not    *)
(* fired and sets a new one for the ticker entered.                           *)

LookupTickers == {"A", "B", ""}

RotateNodes == {n \in nodes : n.kind = "rotate" /\ Has(rotationInputs, n)}

\* the effect "Fetch price when toAsset changes" of node n with inputs inp
LookupEffect(timer, n, inp) ==
    IF inp.toAsset = "" THEN Del(timer, {n}) ELSE Put(timer, n, inp.toAsset)

LookupUnchanged ==
    /\ UNCHANGED <<nodes, edges, portfolioHoldings, projectedForPortfolio, refresh>>
    /\ CountersUnchanged
    /\ allInRequest' = Null

\* the user types the destination ticker t into node n
typeToAsset(n, t) ==
    /\ n \in RotateNodes
    /\ t # rotationInputs[n].toAsset
    /\ LET inp == IF t = ""
                  THEN [rotationInputs[n] EXCEPT !.toAsset = "", !.toPrice = Null,
                                                 !.toType = "null"]
                  ELSE [rotationInputs[n] EXCEPT !.toAsset = t]
       IN /\ lookups' = [lookups EXCEPT !.timer = LookupEffect(@, n, inp)]
          /\ Render(edges, portfolioHoldings, nodes, Put(rotationInputs, n, inp),
                    sellInputs, buyInputs, priceTargetInputs)
    /\ LookupUnchanged

\* the timer of node n fires: the request for its ticker is sent
timerFires(n) ==
    /\ Has(lookups.timer, n)
    /\ lookups' = [timer |-> Del(lookups.timer, {n}),
                   inflight |-> lookups.inflight
                                   \cup {[node |-> n, key |-> lookups.timer[n]]}]
    /\ UNCHANGED <<nodes, edges, portfolioHoldings, rotations, sells, buys, priceTargets,
                   rotationInputs, sellInputs, buyInputs, priceTargetInputs,
                   projectedForPortfolio, allInRequest, refresh>>
    /\ CountersUnchanged

\* the response of a request arrives: setToPrice(price); setToType(type)
lookupResolves(l) ==
    /\ l \in lookups.inflight
    /\ l.node \in RotateNodes
    /\ LET n == l.node
           got == fetchPrice(l.key)
           set == [rotationInputs[n] EXCEPT !.toPrice = got.price, !.toType = got.type]
           again == set.toPrice # rotationInputs[n].toPrice
           inp == IF again /\ set.toAsset = ""
                  THEN [set EXCEPT !.toPrice = Null, !.toType = "null"]
                  ELSE set
       IN /\ lookups' = [timer |-> IF again THEN LookupEffect(lookups.timer, n, inp)
                                   ELSE lookups.timer,
                         inflight |-> lookups.inflight \ {l}]
          /\ Render(edges, portfolioHoldings, nodes, Put(rotationInputs, n, inp),
                    sellInputs, buyInputs, priceTargetInputs)
    /\ LookupUnchanged

\* the editor with rotate nodes whose destination ticker is typed and looked up
NextLookup ==
    \/ handleAddRotation(P1)
    \/ \E s \in ActionNodes : handleAddChainedNode(s, "rotate")
    \/ \E n \in ActionNodes, t \in LookupTickers : typeToAsset(n, t)
    \/ \E n \in ActionNodes : timerFires(n)
    \/ \E l \in lookups.inflight : lookupResolves(l)

SpecLookup == Init /\ [][NextLookup]_vars

\* C24: stale lookups are cancelled: once the destination ticker of a rotate
\* node has been changed, a lookup started for the earlier ticker never sets
\* toPrice; every step that sets toPrice while a ticker is entered sets it to the
\* price the lookup returns for that ticker.
StaleLookupsCancelled ==
    [][\A n \in RotateNodes :
          (rotationInputs'[n].toPrice # rotationInputs[n].toPrice
              /\ rotationInputs'[n].toAsset # "")
          => rotationInputs'[n].toPrice = fetchPrice(rotationInputs'[n].toAsset).price]_vars

----------------------------------------------------------------------------
(* Removing a node of a chain *)

Without(chain, n) == SelectSeq(chain, LAMBDA x : x # n)

\* the chains of portfolio p once removeActionNode(n) has set the edges
ChainsAfterRemove(p, n) == getOrderedChainNodes(SpliceOut(edges, n), p)

\* C25: removing, with removeActionNode, an action node of a chain (one with a
\* predecessor and an action successor, or the last node of the chain) yields
\* a graph whose chain from the portfolio is the previous chain with exactly
\* that node deleted, the remaining nodes in the same order.
SpliceOnDelete ==
    \A p \in PortfolioNodes, n \in ActionNodes :
        \A c \in 1..Len(getOrderedChainNodes(edges, p)) :
            LET chain == getOrderedChainNodes(edges, p)[c] IN
            (InChain(chain, n) /\ Len(chain) > 1)
            => \E d \in 1..Len(ChainsAfterRemove(p, n)) :
                  ChainsAfterRemove(p, n)[d] = Without(chain, n)

----------------------------------------------------------------------------
(* The nodes a projection applies *)

\* the editor with sells on a holding of A, chained and connected by hand
NextFold ==
    \/ addHolding("A", 32)
    \/ handleAddSell(P1)
    \/ \E s \in ActionNodes : handleAddChainedNode(s, "sell")
    \/ \E n \in ActionNodes, c \in SellChoices : handleSellInputChange(n, "A", c[1], c[2])
    \/ \E s \in nodes, t \in nodes : Len(edges) < MaxEdges /\ handleConnect(s, t)

SpecFold == Init /\ [][NextFold]_vars

\* the action nodes that can be reached from portfolio p along edges whose
\* target is an action node
ReachableActions(E, p) ==
    ReachableFrom(SelectSeq(E, LAMBDA e : isActionNode(e.target)), {p}) \ {p}

\* how many times the loops of calculateProjectedHoldings(p) come to node n
TimesApplied(E, p, n) ==
    Cardinality({i \in 1..Len(Flat(getOrderedChainNodes(E, p))) :
                    Flat(getOrderedChainNodes(E, p))[i] = n})

\* C26: in calculateProjectedHoldings(P) every action node reachable from P
\* through action-node edges is applied exactly once onto the ledger and cash
\* accumulator shared by the chains of P: none is applied twice, none is skipped.
AppliedExactlyOnce ==
    \A p \in PortfolioNodes : \A n \in ReachableActions(edges, p) :
        TimesApplied(edges, p, n) = 1

----------------------------------------------------------------------------
(* Sells *)

\* every sell of the folds of this state: the run before the debit, the record
\* of the sell, the run after the debit and the cash
SellsOf(runs, ops) ==
    {<<runs[k], sells[ops[k].node], runs[k + 2]>> :
        k \in {j \in 1..Len(ops) : ops[j].op = "debit" /\ ops[j].node.kind = "sell"}}

SellsApplied ==
    SellsOf(ProjRuns, ProjOps)
        \cup UNION {SellsOf(SnapRuns(n), SnapOps(n)) : n \in ActionNodes}

\* the value of the positions of a run and of its cash accumulator
WorthOf(run) == TotalValue(Ledger(run)) + run.cash

\* C27: a sell conserves total value: for every sell applied in a fold, the
\* sellValue added to the cash accumulator equals sellAmount times the price of
\* the sold position in the ledger at the moment of the debit, whichever unit
\* the user entered, and the total value of the ledger including cash is
\* unchanged by the sell.
SellConservation ==
    \A s \in SellsApplied :
        LET i == findIndex(s[1], s[2].fromAsset) IN
        /\ s[3].cash = s[1].cash + s[2].sellValue
        /\ i # 0 => s[2].sellValue = s[2].sellAmount * Num(Ledger(s[1])[i].price)
        /\ WorthOf(s[3]) = WorthOf(s[1])

----------------------------------------------------------------------------
(* Removing a portfolio *)

\* the editor with portfolios duplicated and removed with their button
NextPortfolio ==
    \/ \E p \in PortfolioNodes, kind \in ActionKinds : AddFirstLevel(kind, p, MaxGraphNodes)
    \/ \E s \in ActionNodes, ty \in ActionKinds : AddChainedNode(s, ty, MaxGraphNodes)
    \/ \E p \in PortfolioNodes : handleDuplicatePortfolio(p, MaxPortfolios)
    \/ \E p \in PortfolioNodes : handleRemovePortfolio(p)

SpecPortfolio == Init /\ [][NextPortfolio]_vars

\* the action nodes and the projected node that hang on portfolio p
HangingOn(p) == ReachableFrom(edges, {p}) \ {p}

\* C28: after handleRemovePortfolio(P), no action node that was reachable from
\* P (first-level or chained further down), no projected node of P, no edge
\* touching any of them and no entry for them in rotations, sells, buys,
\* priceTargets and their input maps remains in the state.
RemovePortfolioCascade ==
    [][\A p \in PortfolioNodes :
          ~(p \in nodes')
          => /\ HangingOn(p) \cap nodes' = {}
             /\ \A i \in 1..Len(edges') :
                   /\ ~(edges'[i].source \in HangingOn(p) \cup {p})
                   /\ ~(edges'[i].target \in HangingOn(p) \cup {p})
             /\ HangingOn(p) \cap
                   (DOMAIN rotations' \cup DOMAIN sells' \cup DOMAIN buys'
                       \cup DOMAIN priceTargets' \cup DOMAIN rotationInputs'
                       \cup DOMAIN sellInputs' \cup DOMAIN buyInputs'
                       \cup DOMAIN priceTargetInputs') = {}]_vars

----------------------------------------------------------------------------
(* Node ids *)

NodeKinds == ActionKinds \cup {"portfolio", "projected"}

\* the id counter of each kind of node
CounterOf(kind) ==
    CASE kind = "portfolio" -> portfolioCount
      [] kind = "projected" -> projectedCount
      [] kind = "rotate" -> rotationCount
      [] kind = "sell" -> sellCount
      [] kind = "buy" -> buyCount
      [] kind = "priceTarget" -> priceTargetCount

Counters == [kind \in NodeKinds |-> CounterOf(kind)]

\* no node carries a number its counter has not reached yet
IdsWithinCounters == \A n \in nodes : n.n <= CounterOf(n.kind)

\* C29: node ids are unique and never reused: no counter ever decreases, a
\* step gives out at most the next number of a kind, to a node that was not in
\* the graph, and every node that enters the graph carries a number above what
\* its counter had reached, so no id of a present or removed node is given again.
IdsNeverReused ==
    /\ []IdsWithinCounters
    /\ [][/\ \A kind \in NodeKinds :
                \/ Counters'[kind] = Counters[kind]
                \/ /\ Counters'[kind] = Counters[kind] + 1
                   /\ [kind |-> kind, n |-> Counters'[kind]] \in nodes' \ nodes
          /\ \A n \in nodes' \ nodes : n.n = Counters[n.kind] + 1]_vars

\* a projected node was removed and its portfolio got a new one, and an action
\* node was removed while one created after it is in the graph
IdsNeverReusedWitness ==
    /\ portfolioCount = 1 /\ projectedCount >= 2
    /\ [kind |-> "projected", n |-> projectedCount] \in nodes
    /\ \E n \in ActionNodes :
          n.n >= 2 /\ ~([kind |-> n.kind, n |-> n.n - 1] \in nodes)

----------------------------------------------------------------------------
(* Loading the page: the state is restored from what was saved, then the     *)
(* prices are refreshed in the background.  loadAndRefresh awaits the price  *)
(* lookups of the saved holdings and writes the holdings, then those of the  *)
(* saved rotate inputs and writes them, then those of the saved buy inputs.  *)

\* the state was saved at least once
Saved == nodes # {P1} \/ portfolioHoldings[P1] # <<>>

RefreshUnchanged ==
    /\ UNCHANGED <<nodes, edges, projectedForPortfolio, lookups>>
    /\ CountersUnchanged
    /\ allInRequest' = Null

\* the page is loaded: saved = loadState(), the set... calls, setIsHydrated(true)
loadState ==
    /\ refresh = Null
    /\ Saved
    /\ refresh' = Some([portfolioHoldings |-> portfolioHoldings,
                        rotationInputs |-> rotationInputs,
                        buyInputs |-> buyInputs,
                        step |-> "portfolioHoldings"])
    /\ UNCHANGED <<nodes, edges, portfolioHoldings, rotations, sells, buys, priceTargets,
                   rotationInputs, sellInputs, buyInputs, priceTargetInputs,
                   projectedForPortfolio, allInRequest, lookups>>
    /\ CountersUnchanged

\* setPortfolioHoldings(refreshedPortfolios)
refreshHoldings ==
    /\ refresh # Null /\ refresh[1].step = "portfolioHoldings"
    /\ LET saved == refresh[1]
           H == [p \in DOMAIN saved.portfolioHoldings |->
                    refreshPrices(saved.portfolioHoldings[p])]
       IN /\ portfolioHoldings' = H
          /\ Render(edges, H, nodes, rotationInputs, sellInputs, buyInputs,
                    priceTargetInputs)
    /\ refresh' = Some([refresh[1] EXCEPT !.step = "rotationInputs"])
    /\ RefreshUnchanged

\* setRotationInputs(refreshedInputs), when rotate inputs were saved
refreshRotationInputs ==
    /\ refresh # Null /\ refresh[1].step = "rotationInputs"
    /\ LET saved == refresh[1]
           RI == IF DOMAIN saved.rotationInputs # {}
                 THEN RefreshInputs(saved.rotationInputs) ELSE rotationInputs
       IN Render(edges, portfolioHoldings, nodes, RI, sellInputs, buyInputs,
                 priceTargetInputs)
    /\ refresh' = Some([refresh[1] EXCEPT !.step = "buyInputs"])
    /\ UNCHANGED portfolioHoldings
    /\ RefreshUnchanged

\* setBuyInputs(refreshedBuyInputs), when buy inputs were saved
refreshBuyInputs ==
    /\ refresh # Null /\ refresh[1].step = "buyInputs"
    /\ LET saved == refresh[1]
           BI == IF DOMAIN saved.buyInputs # {}
                 THEN RefreshInputs(saved.buyInputs) ELSE buyInputs
       IN Render(edges, portfolioHoldings, nodes, rotationInputs, sellInputs, BI,
                 priceTargetInputs)
    /\ refresh' = Null
    /\ UNCHANGED portfolioHoldings
    /\ RefreshUnchanged

\* the editor while a page load refreshes prices: holdings are edited at any
\* time, nodes are added and their inputs edited while no refresh runs
NextReload ==
    \/ \E t \in BuyTickers : addHolding(t, 32)
    \/ \E i \in 1..MaxHoldings : removeHolding(i)
    \/ refresh = Null /\ handleAddRotation(P1)
    \/ refresh = Null /\ handleAddBuy(P1)
    \/ \E n \in ActionNodes, f \in BuyTickers, t \in BuyTickers :
          refresh = Null /\ handleRotationInputChange(n, f, 32, t)
    \/ \E n \in ActionNodes, c \in BuyChoices, t \in BuyTickers :
          refresh = Null /\ handleBuyInputChange(n, c[1], c[2], t)
    \/ loadState
    \/ refreshHoldings
    \/ refreshRotationInputs
    \/ refreshBuyInputs

SpecReload == Init /\ [][NextReload]_vars

\* what the user entered, without the prices a refresh may change
Entered(inputsById, fields) ==
    [n \in DOMAIN inputsById |-> [f \in fields |-> inputsById[n][f]]]

\* C30: no lost update on load: a change the user makes to holdings or to
\* rotate or buy inputs after hydration and before the background refresh
\* completes is still present after the refresh has written its results: a
\* write of the refresh changes no position's ticker and amount and no field
\* the user enters.
NoLostUpdateOnLoad ==
    [][(refresh # Null /\ refresh' # refresh)
       => /\ \A p \in DOMAIN portfolioHoldings :
                /\ p \in DOMAIN portfolioHoldings'
                /\ Amounts(portfolioHoldings'[p]) = Amounts(portfolioHoldings[p])
          /\ Entered(rotationInputs', {"fromAsset", "sellAmount", "toAsset"})
                = Entered(rotationInputs, {"fromAsset", "sellAmount", "toAsset"})
          /\ Entered(buyInputs', {"inputMode", "inputValue", "toAsset"})
                = Entered(buyInputs, {"inputMode", "inputValue", "toAsset"})]_vars

====
